---- MODULE Spec2Model ----
(***************************************************************************)
(* A model of src/build_idm_dataset.py: the loaders of the day-ahead (DAM) *)
(* and intraday (IDA1/2/3) result files, the weather loader and the two    *)
(* left joins of main.                                                     *)
(*                                                                         *)
(* Representation.                                                         *)
(*   - a file name is the sequence of its characters' code points, so that *)
(*     sorted() is the lexicographic order of the sequences;               *)
(*   - a date is its proleptic Gregorian ordinal (date.toordinal());       *)
(*   - a timestamp is the number of minutes since ordinal 0;               *)
(*   - a cell is [k, n, d, s]: a number n/d in lowest terms (k = "num"),   *)
(*     a datetime n (k = "dt"), the text s (k = "str"), NaN (k = "nan")    *)
(*     or NaT (k = "nat");                                                 *)
(*   - a table is [cols, num, rows]: the column names in order, the set of *)
(*     columns of numeric dtype, and the rows in order, each a function    *)
(*     from the column names to cells.                                     *)
(***************************************************************************)
EXTENDS Integers, Sequences, FiniteSets, TLC

\* ------------------------------------------------------------------------
\* Bounds of the model
\* ------------------------------------------------------------------------

\* The largest number of entries a results folder holds.
MaxFiles == 2

\* The number of hours (rows) of a weather table.
Hours == 3

\* ------------------------------------------------------------------------
\* Generic helpers
\* ------------------------------------------------------------------------

RECURSIVE Gcd(_, _)
Gcd(a, b) == IF b = 0 THEN a ELSE Gcd(b, a % b)

\* Python's None, where the code returns a date or None
None == -1

\* Cells
Num(n) == [k |-> "num", n |-> n, d |-> 1, s |-> ""]
Text(str) == [k |-> "str", n |-> 0, d |-> 1, s |-> str]
Dt(ts) == [k |-> "dt", n |-> ts, d |-> 1, s |-> ""]
Null == [k |-> "nan", n |-> 0, d |-> 1, s |-> ""]
NaT == [k |-> "nat", n |-> 0, d |-> 1, s |-> ""]

\* The number a/b in lowest terms (b > 0).
Ratio(a, b) ==
    LET g == Gcd(a, b)
    IN [k |-> "num", n |-> a \div g, d |-> b \div g, s |-> ""]

Range(s) == {s[i] : i \in DOMAIN s}

Min2(a, b) == IF a <= b THEN a ELSE b

\* The elements of a finite set of integers in ascending order.
RECURSIVE SortSet(_)
SortSet(S) ==
    IF S = {} THEN <<>>
    ELSE LET m == CHOOSE x \in S : \A y \in S : x <= y
         IN <<m>> \o SortSet(S \ {m})

\* All orders in which the elements of a finite set can be listed.
RECURSIVE Listings(_)
Listings(S) ==
    IF S = {} THEN {<<>>}
    ELSE UNION {{<<x>> \o l : l \in Listings(S \ {x})} : x \in S}

\* ------------------------------------------------------------------------
\* Calendar: datetime.date and pandas timestamps
\* ------------------------------------------------------------------------

MinutesPerHour == 6 * 10
MinutesPerDay == 24 * MinutesPerHour

IsLeap(y) == (y % 4 = 0) /\ ((y % 100 # 0) \/ (y % 400 = 0))

DaysInMonth(y, m) ==
    IF m = 2 THEN (IF IsLeap(y) THEN 29 ELSE 28)
    ELSE IF m \in {4, 6, 9, 11} THEN 30 ELSE 31

RECURSIVE DaysBeforeMonth(_, _)
DaysBeforeMonth(y, m) ==
    IF m = 1 THEN 0 ELSE DaysBeforeMonth(y, m - 1) + DaysInMonth(y, m - 1)

\* date(y, m, d).toordinal()
Ordinal(y, m, d) ==
    LET p == y - 1
    IN p * 365 + (p \div 4) - (p \div 100) + (p \div 400)
       + DaysBeforeMonth(y, m) + d

\* Timestamp(...).date() of a timestamp, as an ordinal.
DateOf(ts) == ts \div MinutesPerDay

\* The timestamp of hour h (and minute mi) of the day 2024-06-dd.
At(dd, h, mi) ==
    Ordinal(2024, 6, dd) * MinutesPerDay + h * MinutesPerHour + mi

\* ------------------------------------------------------------------------
\* File names
\* ------------------------------------------------------------------------

IsDigit(c) == c >= 48 /\ c <= 57
Slash == <<47>>
DotXlsx == <<46, 120, 108, 115, 120>>
DotCsv == <<46, 99, 115, 118>>

\* "202406<dd>_<tag><ext>", tag a character
DatedName(dd, tag, ext) ==
    <<50, 48, 50, 52, 48, 54, 48 + (dd \div 10), 48 + (dd % 10), 95, tag>> \o ext

\* "results<ext>": no date token
PlainName(ext) == <<114, 101, 115, 117, 108, 116, 115>> \o ext

\* str.endswith
EndsWith(s, suffix) ==
    /\ Len(s) >= Len(suffix)
    /\ SubSeq(s, Len(s) - Len(suffix) + 1, Len(s)) = suffix

\* a < b in the order of Python's str comparison (code points, the shorter
\* of two strings that agree first)
RECURSIVE StrLess(_, _)
StrLess(a, b) ==
    IF b = <<>> THEN FALSE
    ELSE IF a = <<>> THEN TRUE
    ELSE IF Head(a) # Head(b) THEN Head(a) < Head(b)
    ELSE StrLess(Tail(a), Tail(b))

\* os.path.basename: what follows the last "/"
RECURSIVE Basename(_)
Basename(p) ==
    IF \E i \in DOMAIN p : p[i] = 47
    THEN Basename(Tail(p))
    ELSE p

\* parse_fname_date: the date in the first 8 characters of the base name,
\* None when strptime("%Y%m%d") raises.
parse_fname_date(fname) ==
    LET base == Basename(fname)
        d_str == SubSeq(base, 1, Min2(8, Len(base)))
        n(i) == d_str[i] - 48
        y == n(1) * 1000 + n(2) * 100 + n(3) * 10 + n(4)
        m == n(5) * 10 + n(6)
        d == n(7) * 10 + n(8)
    IN IF /\ Len(d_str) = 8
          /\ \A i \in 1..8 : IsDigit(d_str[i])
          /\ y >= 1
          /\ m >= 1 /\ m <= 12
          /\ d >= 1 /\ d <= DaysInMonth(y, m)
       THEN Ordinal(y, m, d)
       ELSE None

\* ------------------------------------------------------------------------
\* Tables (pandas.DataFrame)
\* ------------------------------------------------------------------------

KEY == "DELIVERY_MTU"

IsNum(v) == v.k = "num"

\* pd.DataFrame(): no columns, no rows
EmptyFrame == [cols |-> <<>>, num |-> {}, rows |-> <<>>]

\* pd.DataFrame() in place of line 95
NoColumnsFrame == [cols |-> <<>>, num |-> {}, rows |-> <<>>]

\* pd.DataFrame(columns=["DELIVERY_MTU"])
KeyOnlyFrame == [cols |-> <<KEY>>, num |-> {}, rows |-> <<>>]

\* DataFrame.empty: an axis of length 0
IsEmpty(df) == Len(df.cols) = 0 \/ Len(df.rows) = 0

\* The names of s that are not in the set seen, first occurrence order.
RECURSIVE NewNames(_, _)
NewNames(s, seen) ==
    IF s = <<>> THEN <<>>
    ELSE IF Head(s) \in seen THEN NewNames(Tail(s), seen)
         ELSE <<Head(s)>> \o NewNames(Tail(s), seen \cup {Head(s)})

\* The columns of a sequence of frames, in order of first appearance.
RECURSIVE UnionCols(_, _)
UnionCols(frames, acc) ==
    IF frames = <<>> THEN acc
    ELSE UnionCols(Tail(frames), acc \o NewNames(Head(frames).cols, Range(acc)))

\* A row widened to the columns cs: a column it lacks is NaN.
Widen(r, cs) == [c \in Range(cs) |-> IF c \in DOMAIN r THEN r[c] ELSE Null]

RECURSIVE ConcatRows(_, _)
ConcatRows(frames, cs) ==
    IF frames = <<>> THEN <<>>
    ELSE [i \in DOMAIN Head(frames).rows |-> Widen(Head(frames).rows[i], cs)]
         \o ConcatRows(Tail(frames), cs)

\* pd.concat(frames, ignore_index=True): the union of the columns, the rows
\* of the frames one after the other; a column stays numeric when it is
\* numeric in every frame that has it.
concat(frames) ==
    LET cs == UnionCols(frames, <<>>)
    IN [cols |-> cs,
        num  |-> {c \in Range(cs) :
                     \A i \in DOMAIN frames :
                        c \in Range(frames[i].cols) => c \in frames[i].num},
        rows |-> ConcatRows(frames, cs)]

\* pd.read_excel / pd.read_csv of a parseable file: a column is numeric when
\* each of its cells is a number or empty.
ReadTable(file) ==
    [cols |-> file.cols,
     num  |-> {c \in Range(file.cols) :
                 \A i \in DOMAIN file.rows :
                    IsNum(file.rows[i][c]) \/ file.rows[i][c] = Null},
     rows |-> file.rows]

\* pd.to_datetime(v, errors="coerce") of one cell: a datetime cell is kept,
\* anything else is NaT.
to_datetime(v) == IF v.k = "dt" THEN v ELSE NaT

\* lines 85-86 and 162-163 left out: coerce the key and drop the NaT rows
CoercedRows(df, start_date, end_date) ==
    LET coerced == [i \in DOMAIN df.rows |->
                      [df.rows[i] EXCEPT ![KEY] = to_datetime(@)]]
    IN [cols |-> df.cols, num |-> df.num \ {KEY},
        rows |-> SelectSeq(coerced, LAMBDA r : r[KEY] # NaT)]

\* lines 81-86 and 159-163: coerce the key, drop the NaT rows, keep the rows
\* whose own date lies in [start_date, end_date].
InRangeRows(df, start_date, end_date) ==
    LET coerced == [i \in DOMAIN df.rows |->
                      [df.rows[i] EXCEPT ![KEY] = to_datetime(@)]]
        notna == SelectSeq(coerced, LAMBDA r : r[KEY] # NaT)
        inrange == SelectSeq(notna, LAMBDA r :
                      /\ DateOf(r[KEY].n) >= start_date
                      /\ DateOf(r[KEY].n) <= end_date)
    IN [cols |-> df.cols, num |-> df.num \ {KEY}, rows |-> inrange]

\* DataFrame.rename(columns=...): the i-th column gets the name newcols[i].
Rename(df, newcols) ==
    LET old(c) == df.cols[CHOOSE i \in DOMAIN newcols : newcols[i] = c]
    IN [cols |-> newcols,
        num  |-> {newcols[i] : i \in {j \in DOMAIN df.cols : df.cols[j] \in df.num}},
        rows |-> [i \in DOMAIN df.rows |->
                    [c \in Range(newcols) |-> df.rows[i][old(c)]]]]

RECURSIVE SumCells(_)
SumCells(cells) ==
    IF cells = <<>> THEN 0 ELSE Head(cells).n + SumCells(Tail(cells))

\* agg "sum" in place of "mean"
MeanAsSum(cells) ==
    LET vals == SelectSeq(cells, IsNum)
    IN IF vals = <<>> THEN Null ELSE Num(SumCells(vals))

\* Series.mean(): the mean of the cells that hold a number, NaN when none
\* does (skipna).
mean(cells) ==
    LET vals == SelectSeq(cells, IsNum)
    IN IF vals = <<>> THEN Null ELSE Ratio(SumCells(vals), Len(vals))

\* The cells of column c in the rows of df whose key is k, in row order.
GroupCells(df, k, c) ==
    LET grp == SelectSeq(df.rows, LAMBDA r : r[KEY] = k)
    IN [i \in DOMAIN grp |-> grp[i][c]]

\* No grouping: one key per row
GroupKeysPerRow(df) == [i \in DOMAIN df.rows |-> df.rows[i][KEY].n]

\* The group keys of groupby("DELIVERY_MTU"): the distinct keys, ascending.
GroupKeys(df) == SortSet({df.rows[i][KEY].n : i \in DOMAIN df.rows})

\* df.groupby("DELIVERY_MTU", as_index=False).agg({c: "mean" ...}): one row
\* per key, the key column and the aggregated columns.
groupby_mean(df, numeric_cols) ==
    LET keys == GroupKeys(df)
        cs == <<KEY>> \o numeric_cols
    IN [cols |-> cs,
        num  |-> Range(numeric_cols),
        rows |-> [i \in DOMAIN keys |->
                    [c \in Range(cs) |->
                        IF c = KEY THEN Dt(keys[i])
                        ELSE mean(GroupCells(df, Dt(keys[i]), c))]]]

\* ------------------------------------------------------------------------
\* load_dam_folder
\* ------------------------------------------------------------------------

\* sorted(): insertion of each name at its place
RECURSIVE InsertName(_, _)
InsertName(f, l) ==
    IF l = <<>> THEN <<f>>
    ELSE IF StrLess(Head(l), f) THEN <<Head(l)>> \o InsertName(f, Tail(l))
         ELSE <<f>> \o l

\* The listing as os.listdir returned it
Unsorted(l) == l

RECURSIVE sorted(_)
sorted(l) == IF l = <<>> THEN <<>> ELSE InsertName(Head(l), sorted(Tail(l)))

\* lines 56-59 and 136-139: the .xlsx entries of the listing, sorted
XlsxFiles(listing) ==
    sorted(SelectSeq(listing, LAMBDA f : EndsWith(f, DotXlsx)))

\* lines 68 and 148, negated: the file name's date is in the range
InDateRange(fdate, start_date, end_date) ==
    ~(fdate < start_date \/ fdate > end_date)

\* lines 76 and 155, negated
HasKey(df) == KEY \in Range(df.cols)

\* A function's result: the exception it raised ("" when none), the table
\* it returned, and the names of the files it printed "Reading ... file"
\* for and handed to pd.read_excel, in order.
Ok(df) == [err |-> "", df |-> df, read |-> <<>>]
Raised(e) == [err |-> e, df |-> EmptyFrame, read |-> <<>>]
Reading(r, read) == [r EXCEPT !.read = read]

\* break in place of continue
BreakOnNoKey(files) == <<>>

\* lines 76-78 and 155-157: continue, the loop goes on with the files that
\* follow the one without the key column
AfterNoKey(files) == Tail(files)

\* The loop of lines 63-91 over the files left, all_frames so far.
RECURSIVE DamLoop(_, _, _, _, _, _)
DamLoop(files, dir, start_date, end_date, all_frames, read) ==
    IF files = <<>> THEN [err |-> "", frames |-> all_frames, read |-> read]
    ELSE
      LET fname == Head(files)
          fdate == parse_fname_date(fname)
          next(frames, rd) ==
              DamLoop(Tail(files), dir, start_date, end_date, frames, rd)
          reading == Append(read, fname)
      IN IF fdate = None THEN next(all_frames, read)
         ELSE IF ~InDateRange(fdate, start_date, end_date)
         THEN next(all_frames, read)
         ELSE IF ~dir[fname].ok
         THEN [err |-> "read_excel", frames |-> <<>>, read |-> reading]
         ELSE
           LET df == ReadTable(dir[fname])
           IN IF ~HasKey(df)
              THEN DamLoop(AfterNoKey(files), dir, start_date, end_date,
                           all_frames, reading)
              ELSE
                LET kept == InRangeRows(df, start_date, end_date)
                IN IF IsEmpty(kept) THEN next(all_frames, reading)
                   ELSE next(Append(all_frames, kept), reading)

\* lines 101-105: rename_map
DamPrefix(c) == IF c # KEY THEN "DAM_" \o c ELSE c

\* load_dam_folder, given what os.listdir returned and the folder's files
load_dam_folder(listing, dir, start_date, end_date) ==
    LET loop == DamLoop(XlsxFiles(listing), dir, start_date, end_date,
                        <<>>, <<>>)
    IN IF loop.err # "" THEN Reading(Raised(loop.err), loop.read)
       ELSE IF loop.frames = <<>> THEN Reading(Ok(KeyOnlyFrame), loop.read)
       ELSE
         LET raw == concat(loop.frames)
             dam == Rename(raw, [i \in DOMAIN raw.cols |-> DamPrefix(raw.cols[i])])
             numeric_cols == SelectSeq(dam.cols, LAMBDA c : c \in dam.num)
         IN \* agg({}) of an empty dict: "No objects to concatenate"
            IF numeric_cols = <<>> THEN Reading(Raised("agg"), loop.read)
            ELSE Reading(Ok(groupby_mean(dam, numeric_cols)), loop.read)

\* ------------------------------------------------------------------------
\* load_ida_folder, load_all_idas
\* ------------------------------------------------------------------------

\* The AUCTION column of the file kept when it has one
KeepAuction(df, auction_name) ==
    IF "AUCTION" \in Range(df.cols) THEN df
    ELSE [cols |-> Append(df.cols, "AUCTION"),
          num  |-> df.num,
          rows |-> [i \in DOMAIN df.rows |->
                      [c \in Range(df.cols) \cup {"AUCTION"} |->
                          IF c = "AUCTION" THEN Text(auction_name)
                          ELSE df.rows[i][c]]]]

\* df["AUCTION"] = auction_name: the column is overwritten where it is, or
\* added as the last one; it holds text.
SetAuction(df, auction_name) ==
    LET cs == IF "AUCTION" \in Range(df.cols) THEN df.cols
              ELSE Append(df.cols, "AUCTION")
    IN [cols |-> cs,
        num  |-> df.num \ {"AUCTION"},
        rows |-> [i \in DOMAIN df.rows |->
                    [c \in Range(cs) |->
                        IF c = "AUCTION" THEN Text(auction_name)
                        ELSE df.rows[i][c]]]]

\* The loop of lines 144-168 over the files left, frames so far.
RECURSIVE IdaLoop(_, _, _, _, _, _, _)
IdaLoop(files, dir, auction_name, start_date, end_date, frames, read) ==
    IF files = <<>> THEN [err |-> "", frames |-> frames, read |-> read]
    ELSE
      LET fname == Head(files)
          fdate == parse_fname_date(fname)
          next(fr, rd) == IdaLoop(Tail(files), dir, auction_name,
                                  start_date, end_date, fr, rd)
          reading == Append(read, fname)
      IN IF fdate = None THEN next(frames, read)
         ELSE IF ~InDateRange(fdate, start_date, end_date)
         THEN next(frames, read)
         ELSE IF ~dir[fname].ok
         THEN [err |-> "read_excel", frames |-> <<>>, read |-> reading]
         ELSE
           LET df == ReadTable(dir[fname])
           IN IF ~HasKey(df)
              THEN IdaLoop(AfterNoKey(files), dir, auction_name,
                           start_date, end_date, frames, reading)
              ELSE
                LET kept == InRangeRows(df, start_date, end_date)
                IN IF IsEmpty(kept) THEN next(frames, reading)
                   ELSE next(Append(frames, SetAuction(kept, auction_name)),
                             reading)

\* load_ida_folder, given what os.listdir returned and the folder's files
load_ida_folder(listing, dir, auction_name, start_date, end_date) ==
    LET loop == IdaLoop(XlsxFiles(listing), dir, auction_name,
                        start_date, end_date, <<>>, <<>>)
    IN IF loop.err # "" THEN Reading(Raised(loop.err), loop.read)
       ELSE IF loop.frames = <<>> THEN Reading(Ok(EmptyFrame), loop.read)
       ELSE Reading(Ok(concat(loop.frames)), loop.read)

\* The round labels, in the order load_all_idas loads them.
Rounds == <<"IDA1", "IDA2", "IDA3">>

\* No row at all as soon as one round has none
AllOrNothing(dfs) ==
    IF \E i \in DOMAIN dfs : IsEmpty(dfs[i]) THEN <<>> ELSE dfs

\* line 189: frames = [df for df in [ida1, ida2, ida3] if not df.empty]
NonEmptyFrames(dfs) == SelectSeq(dfs, LAMBDA df : ~IsEmpty(df))

\* load_all_idas: listings and dirs map each round label to its listing and
\* to its folder.
load_all_idas(listings, dirs, start_date, end_date) ==
    LET ida(r) == load_ida_folder(listings[r], dirs[r], r, start_date, end_date)
        loaded == [i \in DOMAIN Rounds |-> ida(Rounds[i])]
        failed == {i \in DOMAIN Rounds : loaded[i].err # ""}
        frames == NonEmptyFrames([i \in DOMAIN Rounds |-> loaded[i].df])
    IN IF failed # {}
       THEN Raised(loaded[CHOOSE i \in failed : \A j \in failed : i <= j].err)
       ELSE IF frames = <<>> THEN Ok(EmptyFrame)
       ELSE Ok(concat(frames))

\* ------------------------------------------------------------------------
\* load_weather
\* ------------------------------------------------------------------------

\* Timestamp.floor("1H")
HourFloor(ts) == (ts \div MinutesPerHour) * MinutesPerHour

\* The bin labels of resample("1H"): every hour from lo to hi.
HourBins(lo, hi) ==
    [i \in 1..((hi - lo) \div MinutesPerHour + 1) |->
        lo + (i - 1) * MinutesPerHour]

\* read_csv(parse_dates=[0]) of the cells of the first column: an empty cell
\* is NaT; a cell that is no date leaves the column unparsed.
ParsedDates(cells) ==
    IF \E i \in DOMAIN cells : cells[i].k \notin {"dt", "nan"}
    THEN cells
    ELSE [i \in DOMAIN cells |-> IF cells[i].k = "dt" THEN cells[i] ELSE NaT]

\* w.reset_index() alone: the rows as they were read
reset_index_only(w) ==
    [cols |-> <<KEY>> \o SelectSeq(w.cols, LAMBDA c : c # KEY),
     num  |-> w.num \ {KEY},
     rows |-> w.rows]

\* w.resample("1H").mean().reset_index() of a table indexed by timestamps:
\* one row per hour from the first to the last, the mean of the rows of
\* that hour in each column.  The rows whose index is NaT are in no bin.
resample_1H_mean(w) ==
    LET valid == SelectSeq(w.rows, LAMBDA r : r[KEY].k = "dt")
        hours == {HourFloor(valid[i][KEY].n) : i \in DOMAIN valid}
        lo == CHOOSE h \in hours : \A g \in hours : h <= g
        hi == CHOOSE h \in hours : \A g \in hours : h >= g
        bins == IF hours = {} THEN <<>> ELSE HourBins(lo, hi)
        others == SelectSeq(w.cols, LAMBDA c : c # KEY)
        cells(h, c) ==
            LET in == SelectSeq(valid, LAMBDA r : HourFloor(r[KEY].n) = h)
            IN [i \in DOMAIN in |-> in[i][c]]
    IN [cols |-> <<KEY>> \o others,
        num  |-> Range(others),
        rows |-> [i \in DOMAIN bins |->
                    [c \in Range(w.cols) |->
                        IF c = KEY THEN Dt(bins[i])
                        ELSE mean(cells(bins[i], c))]]]

\* load_weather of the file at weather_csv
load_weather(file) ==
    IF ~file.exists \/ ~file.ok \/ file.cols = <<>> THEN Raised("read_csv")
    ELSE
      LET raw == ReadTable(file)
          time_col == raw.cols[1]
          renamed == Rename(raw, [i \in DOMAIN raw.cols |->
                                    IF raw.cols[i] = time_col THEN KEY
                                    ELSE raw.cols[i]])
          keys == ParsedDates([i \in DOMAIN renamed.rows |-> renamed.rows[i][KEY]])
          w == [renamed EXCEPT
                  !.rows = [i \in DOMAIN renamed.rows |->
                              [renamed.rows[i] EXCEPT ![KEY] = keys[i]]]]
      IN \* resample needs a DatetimeIndex, mean needs numeric columns
         IF \E i \in DOMAIN keys : keys[i].k \notin {"dt", "nat"}
         THEN Raised("resample")
         ELSE IF \E c \in Range(w.cols) \ {KEY} : c \notin w.num
         THEN Raised("mean")
         ELSE Ok(resample_1H_mean(w))

\* ------------------------------------------------------------------------
\* DataFrame.merge(on="DELIVERY_MTU", how="left")
\* ------------------------------------------------------------------------

HasDuplicates(s) == \E i, j \in DOMAIN s : i # j /\ s[i] = s[j]

\* how="inner": a left row without a match is dropped
JoinRowInner(l, right, lcols, lnames, rcols, rnames) ==
    LET hits == SelectSeq(right.rows, LAMBDA r : r[KEY] = l[KEY])
    IN [i \in DOMAIN hits |->
          [c \in Range(lnames) \cup Range(rnames) |->
              IF c \in Range(lnames)
              THEN l[lcols[CHOOSE j \in DOMAIN lnames : lnames[j] = c]]
              ELSE hits[i][rcols[CHOOSE j \in DOMAIN rnames : rnames[j] = c]]]]

\* The rows of the left join of one left row: one per matching right row,
\* in the right table's order, or one with the right columns empty.  The
\* left columns lcols go by the names lnames, the right ones rcols by rnames.
JoinRow(l, right, lcols, lnames, rcols, rnames) ==
    LET hits == SelectSeq(right.rows, LAMBDA r : r[KEY] = l[KEY])
        both(i) == [c \in Range(lnames) \cup Range(rnames) |->
                      IF c \in Range(lnames)
                      THEN l[lcols[CHOOSE j \in DOMAIN lnames : lnames[j] = c]]
                      ELSE IF i = 0 THEN Null
                      ELSE hits[i][rcols[CHOOSE j \in DOMAIN rnames : rnames[j] = c]]]
    IN IF hits = <<>> THEN <<both(0)>>
       ELSE [i \in DOMAIN hits |-> both(i)]

RECURSIVE JoinRows(_, _, _, _, _, _)
JoinRows(lrows, right, lcols, lnames, rcols, rnames) ==
    IF lrows = <<>> THEN <<>>
    ELSE JoinRow(Head(lrows), right, lcols, lnames, rcols, rnames)
         \o JoinRows(Tail(lrows), right, lcols, lnames, rcols, rnames)

\* left.merge(right, on="DELIVERY_MTU", how="left"): a column name the two
\* tables share (other than the key) gets the suffix _x on the left and _y
\* on the right.
merge_left(left, right) ==
    LET overlap == (Range(left.cols) \cap Range(right.cols)) \ {KEY}
        lname(c) == IF c \in overlap THEN c \o "_x" ELSE c
        rname(c) == IF c \in overlap THEN c \o "_y" ELSE c
        rcols == SelectSeq(right.cols, LAMBDA c : c # KEY)
        lnames == [i \in DOMAIN left.cols |-> lname(left.cols[i])]
        rnames == [i \in DOMAIN rcols |-> rname(rcols[i])]
    IN IF KEY \notin Range(left.cols) \/ KEY \notin Range(right.cols)
       THEN Raised("KeyError")
       ELSE IF HasDuplicates(lnames \o rnames) THEN Raised("MergeError")
       ELSE Ok([cols |-> lnames \o rnames,
                num  |-> {lname(c) : c \in left.num}
                         \cup {rname(c) : c \in right.num \ {KEY}},
                rows |-> JoinRows(left.rows, right, left.cols, lnames,
                                  rcols, rnames)])

\* ------------------------------------------------------------------------
\* The inputs: result files, folders, the weather file, the arguments
\* ------------------------------------------------------------------------

Parsed(cols, rows) == [ok |-> TRUE, cols |-> cols, rows |-> rows]
Unparseable == [ok |-> FALSE, cols |-> <<>>, rows |-> <<>>]

\* The 24 hours of 2024-06-16
Hours24 == [i \in 1..24 |-> At(16, i - 1, 0)]

\* Result files.  Day24 and Ida24 hold the 24 hours of 2024-06-16; Dup holds
\* an hour twice and an empty cell; Mixed holds a row whose key is no date,
\* rows of the days around the range and an hour that Dup and Day24 hold
\* too; NoKey has no DELIVERY_MTU column; TextOnly has no numeric column.
Day24 ==
    Parsed(<<KEY, "PRICE", "ZONE">>,
           [i \in 1..24 |->
              [DELIVERY_MTU |-> Dt(Hours24[i]), PRICE |-> Num(50),
               ZONE |-> Text("GR")]])
Ida24 ==
    Parsed(<<KEY, "PRICE", "SIDE">>,
           [i \in 1..24 |->
              [DELIVERY_MTU |-> Dt(Hours24[i]), PRICE |-> Num(100 + i),
               SIDE |-> Text("Sell")]])
Dup ==
    Parsed(<<KEY, "PRICE", "VOL", "ZONE">>,
           << [DELIVERY_MTU |-> Dt(At(16, 0, 0)), PRICE |-> Num(50),
               VOL |-> Num(10), ZONE |-> Text("GR")],
              [DELIVERY_MTU |-> Dt(At(16, 0, 0)), PRICE |-> Num(52),
               VOL |-> Null, ZONE |-> Text("GR")],
              [DELIVERY_MTU |-> Dt(At(17, 1, 0)), PRICE |-> Num(48),
               VOL |-> Num(3), ZONE |-> Text("BG")] >>)
Mixed ==
    Parsed(<<KEY, "PRICE", "DAM_PRICE", "AUCTION">>,
           << [DELIVERY_MTU |-> Text("Total"), PRICE |-> Num(70),
               DAM_PRICE |-> Num(1), AUCTION |-> Text("CRIDA")],
              [DELIVERY_MTU |-> Dt(At(18, 0, 0)), PRICE |-> Num(80),
               DAM_PRICE |-> Num(2), AUCTION |-> Text("CRIDA")],
              [DELIVERY_MTU |-> Dt(At(17, 1, 0)), PRICE |-> Num(60),
               DAM_PRICE |-> Num(3), AUCTION |-> Text("CRIDA")],
              [DELIVERY_MTU |-> Dt(At(16, 0, 0)), PRICE |-> Num(55),
               DAM_PRICE |-> Num(4), AUCTION |-> Text("CRIDA")],
              [DELIVERY_MTU |-> Dt(At(15, 23, 0)), PRICE |-> Num(90),
               DAM_PRICE |-> Num(5), AUCTION |-> Text("CRIDA")] >>)
Stale ==
    Parsed(<<KEY, "PRICE">>,
           << [DELIVERY_MTU |-> Dt(At(15, 23, 0)), PRICE |-> Num(91)],
              [DELIVERY_MTU |-> Text("Total"), PRICE |-> Num(92)],
              [DELIVERY_MTU |-> Dt(At(18, 0, 0)), PRICE |-> Num(93)] >>)
NoKey ==
    Parsed(<<"PRICE", "ZONE">>, << [PRICE |-> Num(99), ZONE |-> Text("GR")] >>)
TextOnly ==
    Parsed(<<KEY, "ZONE">>,
           << [DELIVERY_MTU |-> Dt(At(16, 0, 0)), ZONE |-> Text("GR")] >>)

\* A folder entry
Entry(name, file) == [name |-> name, file |-> file]

\* The folders that hold at most MaxFiles entries of a pool, as functions
\* from the entry names to the files.
Folders(pool) ==
    { [n \in {e.name : e \in es} |-> (CHOOSE e \in es : e.name = n).file] :
        es \in {S \in SUBSET pool :
                  /\ Cardinality(S) <= MaxFiles
                  /\ \A e1, e2 \in S : e1.name = e2.name => e1 = e2} }

\* The entries a folder handed to one loader call is made of: names dated
\* on, before and after the days of the ranges, a name with no date, a name
\* that does not end in .xlsx.
LoaderPool ==
    { Entry(DatedName(16, 97, DotXlsx), Dup),
      Entry(DatedName(17, 97, DotXlsx), Mixed),
      Entry(DatedName(15, 97, DotXlsx), Mixed),
      Entry(DatedName(18, 97, DotXlsx), Dup),
      Entry(DatedName(16, 98, DotXlsx), NoKey),
      Entry(DatedName(17, 98, DotXlsx), Unparseable),
      Entry(DatedName(16, 98, DotXlsx), Unparseable),
      Entry(DatedName(16, 99, DotXlsx), TextOnly),
      Entry(PlainName(DotXlsx), Dup),
      Entry(DatedName(16, 97, DotCsv), Mixed) }

\* The date ranges of a loader call: 2024-06-16..17 and the single day 17.
Ranges ==
    { [start_date |-> Ordinal(2024, 6, 16), end_date |-> Ordinal(2024, 6, 17)],
      [start_date |-> Ordinal(2024, 6, 17), end_date |-> Ordinal(2024, 6, 17)] }

\* The folders of a run of main
DamPool ==
    { Entry(DatedName(16, 97, DotXlsx), Day24),
      Entry(DatedName(16, 98, DotXlsx), Dup),
      Entry(DatedName(15, 97, DotXlsx), Dup) }
Ida1Pool ==
    { Entry(DatedName(16, 97, DotXlsx), Ida24),
      Entry(DatedName(16, 98, DotXlsx), Mixed),
      Entry(DatedName(18, 97, DotXlsx), Dup) }
Ida2Pool ==
    { Entry(DatedName(16, 97, DotXlsx), Dup),
      Entry(DatedName(17, 97, DotXlsx), Stale) }
Ida3Pool == { Entry(DatedName(17, 97, DotXlsx), Mixed) }

\* --start_date 2024-06-16 --end_date 2024-06-17
StartDate == Ordinal(2024, 6, 16)
EndDate == Ordinal(2024, 6, 17)

\* The weather file: missing, or quarter-hourly rows under a first column
\* of some name, not in time order, with an empty time cell and a column
\* named like a column of the result files.
NoWeather == [exists |-> FALSE, ok |-> FALSE, cols |-> <<>>, rows |-> <<>>]
WeatherQuarters ==
    [exists |-> TRUE, ok |-> TRUE, cols |-> <<"time", "temp", "PRICE">>,
     rows |-> << [time |-> Dt(At(16, 2, 15)), temp |-> Num(20), PRICE |-> Num(1)],
                 [time |-> Dt(At(16, 0, 0)), temp |-> Num(18), PRICE |-> Num(1)],
                 [time |-> Dt(At(16, 0, 45)), temp |-> Num(21), PRICE |-> Null],
                 [time |-> Null, temp |-> Num(30), PRICE |-> Num(1)] >>]
WeatherFiles == {NoWeather, WeatherQuarters}

\* ------------------------------------------------------------------------
\* State
\* ------------------------------------------------------------------------

VARIABLES
    dirs,         \* the folders DAM, IDA1, IDA2, IDA3 under results_root
    weather_csv,  \* the file at --weather_csv
    run,          \* 1 or 2: which run of main this is
    pc,           \* where main is
    status,       \* "running", "returned", "saved" or "raised"
    stdout,       \* the messages main itself printed
    dam_all, ida_all, weather, merged,   \* main's local tables
    csv,          \* the file at --out
    first,        \* what the first run left: its status and the file at --out
    call,         \* one call of a loader: its function and arguments
    ret           \* what the call returned or raised

vars == <<dirs, weather_csv, run, pc, status, stdout,
          dam_all, ida_all, weather, merged, csv, first, call, ret>>

inputs == <<dirs, weather_csv>>
locals == <<dam_all, ida_all, weather, merged>>
loader == <<call, ret>>
mainvars == <<dirs, weather_csv, run, pc, status, stdout,
              dam_all, ida_all, weather, merged, csv, first>>

NoFile == [written |-> FALSE, cols |-> <<>>, rows |-> <<>>]
NoFolder == [n \in {} |-> Unparseable]
NoCall == [fn |-> "", dir |-> NoFolder, auction_name |-> "",
           start_date |-> 0, end_date |-> 0]
NoRet == [done |-> FALSE, err |-> "", df |-> EmptyFrame, read |-> <<>>]

\* DataFrame.to_csv(index=False): the header and the rows; the dtypes are
\* not part of the file.
to_csv(df) == [written |-> TRUE, cols |-> df.cols, rows |-> df.rows]

\* ------------------------------------------------------------------------
\* main, run twice on the same inputs
\* ------------------------------------------------------------------------

Init ==
    /\ dirs \in [DAM : Folders(DamPool), IDA1 : Folders(Ida1Pool),
                 IDA2 : Folders(Ida2Pool), IDA3 : Folders(Ida3Pool)]
    /\ weather_csv \in WeatherFiles
    /\ run = 1
    /\ pc = "load_dam"
    /\ status = "running"
    /\ stdout = <<>>
    /\ dam_all = EmptyFrame /\ ida_all = EmptyFrame
    /\ weather = EmptyFrame /\ merged = EmptyFrame
    /\ csv = NoFile
    /\ first = [status |-> "running", csv |-> NoFile]
    /\ call = NoCall
    /\ ret = NoRet

\* The test of line 268 left out
NoIdaDataIgnored == FALSE

\* line 268: ida_all.empty
NoIdaData == IsEmpty(ida_all)

\* An uncaught exception ends main.
Raise ==
    /\ pc' = "done"
    /\ status' = "raised"

\* line 263: dam_all = load_dam_folder(...)
LoadDam ==
    /\ pc = "load_dam"
    /\ \E listing \in Listings(DOMAIN dirs.DAM) :
         LET r == load_dam_folder(listing, dirs.DAM, StartDate, EndDate)
         IN IF r.err # ""
            THEN Raise /\ UNCHANGED dam_all
            ELSE /\ dam_all' = r.df
                 /\ pc' = "load_idas"
                 /\ UNCHANGED status
    /\ UNCHANGED <<inputs, run, stdout, ida_all, weather, merged, csv, first, loader>>

\* line 266: ida_all = load_all_idas(...)
LoadAllIdas ==
    /\ pc = "load_idas"
    /\ \E l1 \in Listings(DOMAIN dirs.IDA1),
          l2 \in Listings(DOMAIN dirs.IDA2),
          l3 \in Listings(DOMAIN dirs.IDA3) :
         LET r == load_all_idas([IDA1 |-> l1, IDA2 |-> l2, IDA3 |-> l3],
                                dirs, StartDate, EndDate)
         IN IF r.err # ""
            THEN Raise /\ UNCHANGED ida_all
            ELSE /\ ida_all' = r.df
                 /\ pc' = "check_idas"
                 /\ UNCHANGED status
    /\ UNCHANGED <<inputs, run, stdout, dam_all, weather, merged, csv, first, loader>>

\* lines 268-270: no intraday row, main prints the diagnostic and returns
AbortNoIda ==
    /\ pc = "check_idas"
    /\ NoIdaData
    /\ stdout' = Append(stdout, "No IDA data loaded, cannot build dataset.")
    /\ status' = "returned"
    /\ pc' = "done"
    /\ UNCHANGED <<inputs, run, locals, csv, first, loader>>

\* line 273: weather = load_weather(args.weather_csv)
LoadWeather ==
    /\ pc = "check_idas"
    /\ ~NoIdaData
    /\ LET r == load_weather(weather_csv)
       IN IF r.err # ""
          THEN Raise /\ UNCHANGED weather
          ELSE /\ weather' = r.df
               /\ pc' = "merge_dam"
               /\ UNCHANGED status
    /\ UNCHANGED <<inputs, run, stdout, dam_all, ida_all, merged, csv, first, loader>>

\* lines 279-288: the left join with the day-ahead table, skipped when it
\* is empty
MergeDam ==
    /\ pc = "merge_dam"
    /\ IF ~IsEmpty(dam_all)
       THEN LET r == merge_left(ida_all, dam_all)
            IN IF r.err # ""
               THEN Raise /\ UNCHANGED <<merged, stdout>>
               ELSE /\ merged' = r.df
                    /\ stdout' = Append(stdout, "After merging with DAM")
                    /\ pc' = "merge_weather"
                    /\ UNCHANGED status
       ELSE /\ merged' = ida_all
            /\ stdout' = Append(stdout, "No DAM data, continuing with IDA only.")
            /\ pc' = "merge_weather"
            /\ UNCHANGED status
    /\ UNCHANGED <<inputs, run, dam_all, ida_all, weather, csv, first, loader>>

\* lines 291-296: the left join with the weather table
MergeWeather ==
    /\ pc = "merge_weather"
    /\ LET r == merge_left(merged, weather)
       IN IF r.err # ""
          THEN Raise /\ UNCHANGED <<merged, stdout>>
          ELSE /\ merged' = r.df
               /\ stdout' = Append(stdout, "After merging with weather")
               /\ pc' = "save"
               /\ UNCHANGED status
    /\ UNCHANGED <<inputs, run, dam_all, ida_all, weather, csv, first, loader>>

\* lines 299-301: merged.to_csv(args.out, index=False)
Save ==
    /\ pc = "save"
    /\ csv' = to_csv(merged)
    /\ stdout' = Append(stdout, "Saved final IDM dataset")
    /\ status' = "saved"
    /\ pc' = "done"
    /\ UNCHANGED <<inputs, run, locals, first, loader>>

\* The second run: the same folders, weather file and arguments; the file
\* the first run wrote is set aside.
RunAgain ==
    /\ pc = "done"
    /\ run = 1
    /\ first' = [status |-> status, csv |-> csv]
    /\ run' = 2
    /\ pc' = "load_dam"
    /\ status' = "running"
    /\ stdout' = <<>>
    /\ dam_all' = EmptyFrame /\ ida_all' = EmptyFrame
    /\ weather' = EmptyFrame /\ merged' = EmptyFrame
    /\ csv' = NoFile
    /\ UNCHANGED <<inputs, loader>>

Next ==
    \/ LoadDam
    \/ LoadAllIdas
    \/ AbortNoIda
    \/ LoadWeather
    \/ MergeDam
    \/ MergeWeather
    \/ Save
    \/ RunAgain

Spec == Init /\ [][Next]_vars

\* ------------------------------------------------------------------------
\* One call of a loader on a folder and a date range
\* ------------------------------------------------------------------------

InitLoader ==
    /\ dirs = [DAM |-> NoFolder, IDA1 |-> NoFolder,
               IDA2 |-> NoFolder, IDA3 |-> NoFolder]
    /\ weather_csv = NoWeather
    /\ run = 1
    /\ pc = "loader"
    /\ status = "running"
    /\ stdout = <<>>
    /\ dam_all = EmptyFrame /\ ida_all = EmptyFrame
    /\ weather = EmptyFrame /\ merged = EmptyFrame
    /\ csv = NoFile
    /\ first = [status |-> "running", csv |-> NoFile]
    /\ \E dir \in Folders(LoaderPool), rg \in Ranges,
          fn \in {"load_dam_folder", "IDA1", "IDA3"} :
         call = [fn |-> IF fn = "load_dam_folder" THEN fn ELSE "load_ida_folder",
                 dir |-> dir,
                 auction_name |-> IF fn = "load_dam_folder" THEN "" ELSE fn,
                 start_date |-> rg.start_date, end_date |-> rg.end_date]
    /\ ret = NoRet

Returned(r) == [done |-> TRUE, err |-> r.err, df |-> r.df, read |-> r.read]

CallLoadDam ==
    /\ call.fn = "load_dam_folder"
    /\ ~ret.done
    /\ \E listing \in Listings(DOMAIN call.dir) :
         ret' = Returned(load_dam_folder(listing, call.dir,
                                         call.start_date, call.end_date))
    /\ UNCHANGED <<mainvars, call>>

CallLoadIda ==
    /\ call.fn = "load_ida_folder"
    /\ ~ret.done
    /\ \E listing \in Listings(DOMAIN call.dir) :
         ret' = Returned(load_ida_folder(listing, call.dir, call.auction_name,
                                         call.start_date, call.end_date))
    /\ UNCHANGED <<mainvars, call>>

NextLoader == CallLoadDam \/ CallLoadIda

SpecLoader == InitLoader /\ [][NextLoader]_vars

\* ------------------------------------------------------------------------
\* src/fetch_weather.py: resample_to_frequency
\*
\* A weather table is [index, cols, num, rows]: the timestamps of its
\* DatetimeIndex, the column names in order, the columns of numeric dtype
\* and the rows.  The frequency strings are read as pandas 1.x/2.x reads
\* them, the versions in which the script's own "15T" and "H" are valid.
\* ------------------------------------------------------------------------

LowerLetters == "abcdefghijklmnopqrstuvwxyz"
UpperLetters == "ABCDEFGHIJKLMNOPQRSTUVWXYZ"
DigitChars == "0123456789"
\* The characters of the names in use, in code point order.
CodeOrder == DigitChars \o UpperLetters \o "_" \o LowerLetters

\* The position of the character ch in alphabet, 0 when it is not in it.
Pos(ch, alphabet) ==
    IF \E i \in 1..Len(alphabet) : SubSeq(alphabet, i, i) = ch
    THEN CHOOSE i \in 1..Len(alphabet) : SubSeq(alphabet, i, i) = ch
    ELSE 0

\* str.upper
RECURSIVE upper(_)
upper(str) ==
    IF Len(str) = 0 THEN ""
    ELSE LET ch == SubSeq(str, 1, 1)
             p == Pos(ch, LowerLetters)
         IN (IF p > 0 THEN SubSeq(UpperLetters, p, p) ELSE ch)
               \o upper(SubSeq(str, 2, Len(str)))

\* a < b for two names, in the order of Python's str comparison
RECURSIVE NameLess(_, _)
NameLess(a, b) ==
    IF Len(b) = 0 THEN FALSE
    ELSE IF Len(a) = 0 THEN TRUE
    ELSE LET x == Pos(SubSeq(a, 1, 1), CodeOrder)
             y == Pos(SubSeq(b, 1, 1), CodeOrder)
         IN IF x # y THEN x < y
            ELSE NameLess(SubSeq(a, 2, Len(a)), SubSeq(b, 2, Len(b)))

\* The names of a set in ascending order (Index.difference sorts).
RECURSIVE SortNames(_)
SortNames(S) ==
    IF S = {} THEN <<>>
    ELSE LET m == CHOOSE x \in S : \A y \in S \ {x} : NameLess(x, y)
         IN <<m>> \o SortNames(S \ {m})

\* The number of leading digits of str
RECURSIVE DigitCount(_)
DigitCount(str) ==
    IF Len(str) = 0 \/ Pos(SubSeq(str, 1, 1), DigitChars) = 0 THEN 0
    ELSE 1 + DigitCount(SubSeq(str, 2, Len(str)))

\* int(str) of a string of digits, acc the value of the digits read so far
RECURSIVE ToInt(_, _)
ToInt(str, acc) ==
    IF Len(str) = 0 THEN acc
    ELSE ToInt(SubSeq(str, 2, Len(str)),
               10 * acc + Pos(SubSeq(str, 1, 1), DigitChars) - 1)

\* pandas to_offset(freq), in minutes: an optional count and a unit, the
\* unit read without regard to case, T and min for the minute, H for the
\* hour.  0 stands for the ValueError of a string that is no frequency.
to_offset(freq) ==
    LET k == DigitCount(freq)
        n == IF k = 0 THEN 1 ELSE ToInt(SubSeq(freq, 1, k), 0)
        unit == upper(SubSeq(freq, k + 1, Len(freq)))
    IN IF unit \in {"T", "MIN"} THEN n
       ELSE IF unit = "H" THEN n * MinutesPerHour
       ELSE 0

\* The labels of resample(freq): from the bin of the first timestamp to
\* the bin of the last, the bins counted from midnight of the first day.
ResampleGrid(index, step) ==
    LET day == DateOf(index[1]) * MinutesPerDay
        lo == day + ((index[1] - day) \div step) * step
        hi == day + ((index[Len(index)] - day) \div step) * step
    IN [i \in 1..((hi - lo) \div step + 1) |-> lo + (i - 1) * step]

\* asfreq: the cell of column c at the label t, NaN where the table has no
\* row at t
CellAt(df, t, c) ==
    IF \E i \in DOMAIN df.index : df.index[i] = t
    THEN df.rows[CHOOSE i \in DOMAIN df.index : df.index[i] = t][c]
    ELSE Null

\* The number at time t on the line through (ta, a) and (tb, b)
Linear(ta, a, tb, b, t) ==
    Ratio(a.n * b.d * (tb - ta) + (b.n * a.d - a.n * b.d) * (t - ta),
          a.d * b.d * (tb - ta))

\* fillna(0) in place of the interpolation
interpolate_zero(grid, cells) ==
    [i \in DOMAIN cells |-> IF IsNum(cells[i]) THEN cells[i] ELSE Num(0)]

\* interpolate(method="time") of one column: a NaN between two numbers
\* gets the value of the line through them at its time, a NaN after the
\* last number gets that number, a NaN before the first number stays.
interpolate_time(grid, cells) ==
    [i \in DOMAIN cells |->
        IF IsNum(cells[i]) THEN cells[i]
        ELSE LET before == {j \in DOMAIN cells : j < i /\ IsNum(cells[j])}
                 after == {j \in DOMAIN cells : j > i /\ IsNum(cells[j])}
                 p == CHOOSE j \in before : \A m \in before : m <= j
                 q == CHOOSE j \in after : \A m \in after : j <= m
             IN IF before = {} THEN Null
                ELSE IF after = {} THEN cells[p]
                ELSE Linear(grid[p], cells[p], grid[q], cells[q], grid[i])]

\* ffill of one column over the labels: the cell of the last row at or
\* before the label
ffill_at(df, t, c) ==
    LET at == {i \in DOMAIN df.index : df.index[i] <= t}
    IN IF at = {} THEN Null
       ELSE df.rows[CHOOSE i \in at : \A j \in at : df.index[j] <= df.index[i]][c]

\* lines 54-65
resample_to_frequency(df, freq) ==
    IF upper(freq) \in {"60T", "1H", "H"} THEN Ok(df)
    ELSE IF to_offset(freq) = 0 THEN Raised("ValueError")
    ELSE
      LET grid == ResampleGrid(df.index, to_offset(freq))
          num_cols == SelectSeq(df.cols, LAMBDA c : c \in df.num)
          non_num == SortNames(Range(df.cols) \ df.num)
          filled(c) == interpolate_time(grid,
                          [i \in DOMAIN grid |-> CellAt(df, grid[i], c)])
      IN Ok([index |-> grid,
             cols  |-> num_cols \o non_num,
             num   |-> df.num,
             rows  |-> [i \in DOMAIN grid |->
                          [c \in Range(df.cols) |->
                             IF c \in df.num THEN filled(c)[i]
                             ELSE ffill_at(df, grid[i], c)]]])

\* ------------------------------------------------------------------------
\* src/fetch_weather.py: build_feature_block
\*
\* A cell with k = "sqrt" is the square root of the number n/d.
\* ------------------------------------------------------------------------

RAdd(a, b) == Ratio(a.n * b.d + b.n * a.d, a.d * b.d)
RSub(a, b) == Ratio(a.n * b.d - b.n * a.d, a.d * b.d)
RMul(a, b) == Ratio(a.n * b.n, a.d * b.d)
RLess(a, b) == a.n * b.d < b.n * a.d

RECURSIVE RSum(_)
RSum(cells) == IF cells = <<>> THEN Num(0) ELSE RAdd(Head(cells), RSum(Tail(cells)))

RECURSIVE RSumSquares(_)
RSumSquares(cells) ==
    IF cells = <<>> THEN Num(0)
    ELSE RAdd(RMul(Head(cells), Head(cells)), RSumSquares(Tail(cells)))

\* The mean of the cells that hold a number, NaN when none does.
RMean(cells) ==
    LET vals == SelectSeq(cells, IsNum)
        t == RSum(vals)
    IN IF vals = <<>> THEN Null ELSE Ratio(t.n, t.d * Len(vals))

\* The numbers of a sequence of cells in ascending order.
RECURSIVE RSort(_)
RSort(vals) ==
    IF vals = <<>> THEN <<>>
    ELSE LET i == CHOOSE j \in DOMAIN vals :
                     \A m \in DOMAIN vals : ~RLess(vals[m], vals[j])
             rest == [m \in 1..(Len(vals) - 1) |->
                        IF m < i THEN vals[m] ELSE vals[m + 1]]
         IN <<vals[i]>> \o RSort(rest)

\* The median of the cells that hold a number, NaN when none does.
RMedian(cells) ==
    LET vals == RSort(SelectSeq(cells, IsNum))
        n == Len(vals)
        h == (n + 1) \div 2
    IN IF n = 0 THEN Null
       ELSE IF n % 2 = 1 THEN vals[h]
       ELSE RMul(RAdd(vals[h], vals[h + 1]), Ratio(1, 2))

\* The sample standard deviation (ddof = 1) of the cells that hold a
\* number, NaN with fewer than two of them.
RStd(cells) ==
    LET vals == SelectSeq(cells, IsNum)
        n == Len(vals)
        t == RSum(vals)
        q == RSumSquares(vals)
        v == RSub(RMul(Num(n), q), RMul(t, t))
    IN IF n < 2 THEN Null
       ELSE [k |-> "sqrt", n |-> Ratio(v.n, v.d * n * (n - 1)).n,
             d |-> Ratio(v.n, v.d * n * (n - 1)).d, s |-> ""]

\* The cells of column c, in row order.
Column(df, c) == [i \in DOMAIN df.rows |-> df.rows[i][c]]

\* out[name] = cells: a column of that name gets the cells where it stands,
\* a new name is appended as the last column.
SetColumn(out, name, cells) ==
    [index |-> out.index,
     cols  |-> IF name \in Range(out.cols) THEN out.cols
               ELSE Append(out.cols, name),
     num   |-> out.num \cup {name},
     rows  |-> [i \in DOMAIN out.rows |->
                  [c \in Range(out.cols) \cup {name} |->
                     IF c = name THEN cells[i] ELSE out.rows[i][c]]]]

\* lines 73-74: the columns of out whose name ends with "__<var>"
cols_like(out, var) ==
    SelectSeq(out.cols, LAMBDA c : EndsWith(c, "__" \o var))

\* out[cols].mean(axis=1) and .median(axis=1): one cell per row
RowMeans(out, cols) ==
    [i \in DOMAIN out.rows |-> RMean([j \in DOMAIN cols |-> out.rows[i][cols[j]]])]
RowMedians(out, cols) ==
    [i \in DOMAIN out.rows |-> RMedian([j \in DOMAIN cols |-> out.rows[i][cols[j]]])]

\* lines 76-86: the aggregates across locations, one variable after the
\* other
RECURSIVE Aggregates(_, _)
Aggregates(out, variables) ==
    IF variables = <<>> THEN out
    ELSE LET var == Head(variables)
             cols == cols_like(out, var)
             m == SetColumn(out, "AGG__mean__" \o var, RowMeans(out, cols))
             md == SetColumn(m, "AGG__median__" \o var, RowMedians(m, cols))
         IN Aggregates(IF cols = <<>> THEN out ELSE md, Tail(variables))

\* lines 89-91
MeanIsDay(out) ==
    LET cols_day == cols_like(out, "is_day")
    IN IF cols_day = <<>> THEN out
       ELSE SetColumn(out, "AGG__mean__is_day", RowMeans(out, cols_day))

\* Series.diff(1)
diff(cells) ==
    [i \in DOMAIN cells |->
        IF i = 1 \/ ~IsNum(cells[i]) \/ ~IsNum(cells[i - 1]) THEN Null
        ELSE RSub(cells[i], cells[i - 1])]

\* lines 94-100
RECURSIVE Deltas(_, _)
Deltas(out, bases) ==
    IF bases = <<>> THEN out
    ELSE LET base == Head(bases)
         IN Deltas(IF base \in Range(out.cols)
                   THEN SetColumn(out, base \o "__delta1", diff(Column(out, base)))
                   ELSE out,
                   Tail(bases))

\* The cells of the window of w rows that ends at row i
Window(cells, i, w) ==
    SubSeq(cells, IF i - w + 1 < 1 THEN 1 ELSE i - w + 1, i)

\* Series.rolling(w, min_periods=1).std() and .mean()
rolling_std(cells, w) == [i \in DOMAIN cells |-> RStd(Window(cells, i, w))]
rolling_mean(cells, w) == [i \in DOMAIN cells |-> RMean(Window(cells, i, w))]

\* str(w) of a window size, as the f-string of lines 106-107 formats it
WindowText(w) ==
    IF w < 10 THEN SubSeq(DigitChars, w + 1, w + 1)
    ELSE SubSeq(DigitChars, (w \div 10) + 1, (w \div 10) + 1)
            \o SubSeq(DigitChars, (w % 10) + 1, (w % 10) + 1)

\* lines 104-107, for one window w
RECURSIVE RollingOf(_, _, _)
RollingOf(out, w, bases) ==
    IF bases = <<>> THEN out
    ELSE LET base == Head(bases)
             sd == SetColumn(out, base \o "__rollstd" \o WindowText(w),
                             rolling_std(Column(out, base), w))
             mn == SetColumn(sd, base \o "__rollmean" \o WindowText(w),
                             rolling_mean(Column(sd, base), w))
         IN RollingOf(IF base \in Range(out.cols) THEN mn ELSE out, w, Tail(bases))

\* lines 103-107
RECURSIVE Rolling(_, _)
Rolling(out, rolling_windows) ==
    IF rolling_windows = <<>> THEN out
    ELSE Rolling(RollingOf(out, Head(rolling_windows),
                           <<"AGG__mean__wind_speed_10m",
                             "AGG__mean__shortwave_radiation">>),
                 Tail(rolling_windows))

\* Timestamp.hour, .dayofweek (Monday is 0) and .month
HourOf(ts) == (ts % MinutesPerDay) \div MinutesPerHour
DayOfWeek(ts) == (DateOf(ts) + 6) % 7
MonthOf(ts) ==
    LET o == DateOf(ts)
        y == CHOOSE yy \in 1970..2100 :
                Ordinal(yy, 1, 1) <= o /\ o < Ordinal(yy + 1, 1, 1)
    IN CHOOSE m \in 1..12 :
          /\ Ordinal(y, m, 1) <= o
          /\ o < Ordinal(y, m, 1) + DaysInMonth(y, m)

\* lines 110-113
Calendar(out) ==
    LET h == SetColumn(out, "cal_hour",
                       [i \in DOMAIN out.index |-> Num(HourOf(out.index[i]))])
        d == SetColumn(h, "cal_dow",
                       [i \in DOMAIN out.index |-> Num(DayOfWeek(out.index[i]))])
    IN SetColumn(d, "cal_month",
                 [i \in DOMAIN out.index |-> Num(MonthOf(out.index[i]))])

\* line 68: rolling_windows=(3, 6)
DefaultWindows == <<3, 6>>

\* lines 68-115.  out is a copy of df_all (line 70): the table of the
\* caller is left as it was.
build_feature_block(df_all, freq, rolling_windows) ==
    LET agg == Aggregates(df_all, <<"wind_speed_10m", "wind_gusts_10m",
                                    "shortwave_radiation", "cloud_cover",
                                    "precipitation">>)
        day == MeanIsDay(agg)
        deltas == Deltas(day, <<"AGG__mean__wind_speed_10m",
                                "AGG__mean__shortwave_radiation",
                                "AGG__mean__cloud_cover">>)
        rolled == Rolling(deltas, rolling_windows)
    IN Ok(Calendar(rolled))

\* ------------------------------------------------------------------------
\* One call of a function of fetch_weather.py on an hourly table
\* ------------------------------------------------------------------------

\* The hours from 2024-06-16 00:00 on, as main's asfreq("H") (line 142)
\* lays them out.
HourlyIndex == [i \in 1..Hours |-> At(16, i - 1, 0)]

\* The tables handed to resample_to_frequency: a temperature column with
\* every pattern of 10, 20 and NaN, a column of object dtype that holds no
\* value (the API returned nulls), and a float column that holds no value
\* (line 47: the API returned no such variable).
ResampleTables ==
    { [index |-> HourlyIndex,
       cols  |-> <<"athens__temperature_2m", "athens__wind_speed_10m",
                   "athens__precipitation">>,
       num   |-> {"athens__temperature_2m", "athens__precipitation"},
       rows  |-> [i \in 1..Hours |->
                    [athens__temperature_2m |-> t[i],
                     athens__wind_speed_10m |-> Null,
                     athens__precipitation  |-> Null]]] :
        t \in [1..Hours -> {Num(10), Num(20), Null}] }

\* --freq: spellings of the hour, of finer and coarser grids, and a string
\* that is no frequency
Frequencies ==
    {"H", "1H", "60T", "h", "60min", "15T", "30min", "45T", "2H", "quarter"}

\* Hourly tables with rows missing: the source has no row between the
\* second hour and the hour Hours + 1.
GapTables ==
    { [index |-> <<At(16, 0, 0), At(16, 1, 0), At(16, Hours + 1, 0)>>,
       cols  |-> <<"athens__temperature_2m">>,
       num   |-> {"athens__temperature_2m"},
       rows  |-> [i \in 1..3 |-> [athens__temperature_2m |-> t[i]]]] :
        t \in [1..3 -> {Num(10), Num(20), Null}] }

\* The columns the tables handed to build_feature_block are made of, as
\* fetch_one names them (line 50: "<location>__<variable>"), with their
\* cells in row i.  The fourth is the wind speed of a location that
\* locations.json names AGG__mean.
FeatureColumns ==
    <<"a__wind_speed_10m", "b__wind_speed_10m", "a__is_day",
      "AGG__mean__wind_speed_10m", "a__temperature_2m">>

FeatureCell(c, i) ==
    IF c = "a__wind_speed_10m" THEN (IF i = Hours THEN Null ELSE Num(3 + i))
    ELSE IF c = "b__wind_speed_10m" THEN (IF i = 1 THEN Num(6) ELSE Null)
    ELSE IF c = "a__is_day" THEN Num(i % 2)
    ELSE IF c = "AGG__mean__wind_speed_10m" THEN Num(6 + i)
    ELSE Num(20 + i)

FeatureTables ==
    { [index |-> HourlyIndex,
       cols  |-> SelectSeq(FeatureColumns, LAMBDA c : c \in S),
       num   |-> S,
       rows  |-> [i \in 1..Hours |-> [c \in S |-> FeatureCell(c, i)]]] :
        S \in SUBSET Range(FeatureColumns) \ {{}} }

InitWeather ==
    /\ dirs = [DAM |-> NoFolder, IDA1 |-> NoFolder,
               IDA2 |-> NoFolder, IDA3 |-> NoFolder]
    /\ weather_csv = NoWeather
    /\ run = 1
    /\ pc = "weather"
    /\ status = "running"
    /\ stdout = <<>>
    /\ dam_all = EmptyFrame /\ ida_all = EmptyFrame
    /\ weather = EmptyFrame /\ merged = EmptyFrame
    /\ csv = NoFile
    /\ first = [status |-> "running", csv |-> NoFile]
    /\ \/ \E df \in ResampleTables \cup GapTables, freq \in Frequencies :
            call = [fn |-> "resample_to_frequency", df |-> df, freq |-> freq]
       \/ \E df \in FeatureTables, freq \in {"15T", "H"} :
            call = [fn |-> "build_feature_block", df |-> df, freq |-> freq]
    /\ ret = NoRet

\* line 146: df_res = resample_to_frequency(df_all, args.freq)
CallResample ==
    /\ call.fn = "resample_to_frequency"
    /\ ~ret.done
    /\ ret' = Returned(resample_to_frequency(call.df, call.freq))
    /\ UNCHANGED <<mainvars, call>>

\* line 149: features = build_feature_block(df_res, args.freq)
CallBuildFeatures ==
    /\ call.fn = "build_feature_block"
    /\ ~ret.done
    /\ ret' = Returned(build_feature_block(call.df, call.freq, DefaultWindows))
    /\ UNCHANGED <<mainvars, call>>

NextWeather == CallResample \/ CallBuildFeatures

SpecWeather == InitWeather /\ [][NextWeather]_vars

\* ------------------------------------------------------------------------
\* One call of load_weather on a weather file
\* ------------------------------------------------------------------------

\* main's variables while a single function is called
Idle(at) ==
    /\ dirs = [DAM |-> NoFolder, IDA1 |-> NoFolder,
               IDA2 |-> NoFolder, IDA3 |-> NoFolder]
    /\ weather_csv = NoWeather
    /\ run = 1
    /\ pc = at
    /\ status = "running"
    /\ stdout = <<>>
    /\ dam_all = EmptyFrame /\ ida_all = EmptyFrame
    /\ weather = EmptyFrame /\ merged = EmptyFrame
    /\ csv = NoFile
    /\ first = [status |-> "running", csv |-> NoFile]

MaxRows == 3

\* What the first column of a weather file holds in a row: a quarter-hour
\* timestamp, nothing, or text that is no date.
TimeCells ==
    {Dt(At(16, 0, 0)), Dt(At(16, 0, 45)), Dt(At(16, 2, 15)), Null, Text("n/a")}

\* The header of the first column: as fetch_weather writes it, as pandas
\* names an index written without a name, and the name of the key itself.
TimeHeaders == {"time", "Unnamed: 0", "DELIVERY_MTU"}

\* Weather files of up to MaxRows rows in any order, the same timestamp
\* in several rows included.
WeatherPool ==
    { [exists |-> TRUE, ok |-> TRUE, cols |-> <<h, "temp">>,
       rows |-> [i \in DOMAIN t |->
                   [c \in {h, "temp"} |-> IF c = h THEN t[i] ELSE Num(17 + i)]]] :
        h \in TimeHeaders,
        t \in UNION {[1..n -> TimeCells] : n \in 1..MaxRows} }

InitWeatherFile ==
    /\ Idle("load_weather")
    /\ \E file \in WeatherPool : call = [fn |-> "load_weather", file |-> file]
    /\ ret = NoRet

\* line 273: weather = load_weather(args.weather_csv)
CallLoadWeather ==
    /\ call.fn = "load_weather"
    /\ ~ret.done
    /\ ret' = Returned(load_weather(call.file))
    /\ UNCHANGED <<mainvars, call>>

NextWeatherFile == CallLoadWeather

SpecWeatherFile == InitWeatherFile /\ [][NextWeatherFile]_vars

\* ------------------------------------------------------------------------
\* src/train_lstm_ida1.py: main from the epoch loop on (lines 164-212)
\*
\* call is the frame of main: its locals and the line it is at.  The
\* parameters of the model are one value of Params; the test set is the
\* loss it gives each value (evaluate runs in eval mode under no_grad on
\* an unshuffled loader: its loss is a function of the parameters).
\* ------------------------------------------------------------------------

\* n_epochs (line 164 sets 30) as far as the model runs it
MaxEpochs == 3

Params == 0..2
Losses == 1..3

\* float("inf") and the losses below it
Inf == [inf |-> TRUE, v |-> 0]
Loss(v) == [inf |-> FALSE, v |-> v]
LossLess(a, b) == ~a.inf /\ (b.inf \/ a.v < b.v)

\* model.state_dict(): a dictionary of references to the parameter tensors
\* of the model, not of copies of them
state_dict(frame) == [ref |-> "model"]
NoState == [ref |-> "None"]

\* The values read through a state dictionary: what the tensors it refers
\* to hold now.
Deref(frame, sd) == frame.model

NoCheckpoint == [exists |-> FALSE, state_dict |-> 0]

InitTrain ==
    /\ Idle("train")
    /\ \E theta \in Params, test \in [Params -> Losses] :
         call = [fn            |-> "train_lstm_ida1.main",
                 line          |-> 168,
                 test_loader   |-> test,
                 model         |-> theta,
                 epoch         |-> 0,
                 best_val_loss |-> Inf,
                 best_state    |-> NoState,
                 epochs        |-> <<>>,
                 final_loss    |-> Inf,
                 checkpoint    |-> NoCheckpoint]
    /\ ret = NoRet

\* lines 168-184, one pass of the loop.  train_one_epoch leaves the model
\* with some parameters (optimizer.step writes into the parameter tensors);
\* epochs records, for each epoch, the parameters and the test loss at its
\* end.
Epoch ==
    /\ call.fn = "train_lstm_ida1.main"
    /\ call.line = 168
    /\ call.epoch < MaxEpochs
    /\ \E theta \in Params :
         LET trained == [call EXCEPT !.model = theta, !.epoch = @ + 1]
             val_loss == Loss(call.test_loader[theta])
             better == LossLess(val_loss, call.best_val_loss)
         IN call' = [trained EXCEPT
                       !.best_val_loss = IF better THEN val_loss ELSE @,
                       !.best_state = IF better THEN state_dict(trained) ELSE @,
                       !.epochs = Append(@, [model |-> theta,
                                             val_loss |-> val_loss.v])]
    /\ UNCHANGED <<mainvars, ret>>

\* lines 186-212: load_state_dict copies the values best_state refers to
\* into the parameters of the model, evaluate measures the model, and
\* torch.save writes model.state_dict().
Finish ==
    /\ call.fn = "train_lstm_ida1.main"
    /\ call.line = 168
    /\ call.epoch = MaxEpochs
    /\ LET loaded == IF call.best_state.ref # "None"
                     THEN [call EXCEPT !.model = Deref(call, call.best_state)]
                     ELSE call
       IN call' = [loaded EXCEPT
                     !.line = 212,
                     !.final_loss = Loss(loaded.test_loader[loaded.model]),
                     !.checkpoint = [exists |-> TRUE,
                                     state_dict |-> loaded.model]]
    /\ UNCHANGED <<mainvars, ret>>

NextTrain == Epoch \/ Finish

SpecTrain == InitTrain /\ [][NextTrain]_vars

\* ------------------------------------------------------------------------
\* src/fetch_entsoe.py: chunk_period (lines 24-29)
\*
\* call is the frame of the generator; yielded is what the for loop of the
\* caller (lines 126, 147, 173) has received from it so far.  Datetimes are
\* minutes, as elsewhere.
\* ------------------------------------------------------------------------

\* The longest period asked for, in hours, and the largest hours_per_call
\* (the callers pass 168 and 744)
MaxSpan == 3
MaxHoursPerCall == 2

\* --start and --end: half hours from 2024-06-16 00:00 on
PeriodEdges == {At(16, 0, 0) + 30 * k : k \in 0..(2 * MaxSpan)}

\* cur + timedelta(hours=hours_per_call) without the clipping to end_utc
nxt_unclipped(cur, end_utc, hours_per_call) ==
    cur + hours_per_call * MinutesPerHour

\* line 27: nxt = min(cur + timedelta(hours=hours_per_call), end_utc)
nxt(cur, end_utc, hours_per_call) ==
    Min2(cur + hours_per_call * MinutesPerHour, end_utc)

InitChunk ==
    /\ Idle("chunk_period")
    /\ \E s \in PeriodEdges, e \in PeriodEdges, h \in 1..MaxHoursPerCall :
         call = [fn             |-> "chunk_period",
                 line           |-> 26,
                 start_utc      |-> s,
                 end_utc        |-> e,
                 hours_per_call |-> h,
                 cur            |-> s,
                 yielded        |-> <<>>]
    /\ ret = NoRet

\* lines 26-29, one pass of the loop: the interval is yielded and cur
\* moves to its end
ChunkYield ==
    /\ call.fn = "chunk_period"
    /\ call.line = 26
    /\ call.cur < call.end_utc
    /\ LET n == nxt(call.cur, call.end_utc, call.hours_per_call)
       IN call' = [call EXCEPT !.yielded = Append(@, <<call.cur, n>>),
                               !.cur = n]
    /\ UNCHANGED <<mainvars, ret>>

\* line 26 with cur at or past end_utc: the generator is exhausted
ChunkReturn ==
    /\ call.fn = "chunk_period"
    /\ call.line = 26
    /\ ~(call.cur < call.end_utc)
    /\ call' = [call EXCEPT !.line = 30]
    /\ UNCHANGED <<mainvars, ret>>

NextChunk == ChunkYield \/ ChunkReturn

SpecChunk == InitChunk /\ [][NextChunk]_vars

\* The for loops of lines 126, 147 and 173 ask the generator for its next
\* interval until it is exhausted.
FairSpecChunk == SpecChunk /\ WF_vars(NextChunk)

\* ------------------------------------------------------------------------
\* src/fetch_ipto_api.py: daterange_chunks (lines 39-44)
\*
\* call is the frame of the generator; yielded is what the for loop of
\* main (line 73) has received from it so far.  Dates are day numbers.
\* ------------------------------------------------------------------------

\* The longest range asked for is MaxDays + 1 days; a generator that does
\* not come to an end is followed for MaxYields ranges.
MaxDays == 3
MaxYields == 5

\* --from and --to (lines 71-72)
Dates == {Ordinal(2024, 6, 16) + k : k \in 0..MaxDays}

\* --chunk (line 64: type=int, any integer is accepted)
ChunkValues == -1..(MaxDays + 1)

InitDays ==
    /\ Idle("daterange_chunks")
    /\ \E d1 \in Dates, d2 \in Dates, chunk \in ChunkValues :
         /\ d1 <= d2
         /\ call = [fn         |-> "daterange_chunks",
                    line       |-> 41,
                    start      |-> d1,
                    end        |-> d2,
                    chunk_days |-> chunk,
                    cur        |-> d1,
                    yielded    |-> <<>>]
    /\ ret = NoRet

\* lines 41-44, one pass of the loop
DaysYield ==
    /\ call.fn = "daterange_chunks"
    /\ call.line = 41
    /\ call.cur <= call.end
    /\ Len(call.yielded) < MaxYields
    /\ LET cur2 == Min2(call.cur + (call.chunk_days - 1), call.end)
       IN call' = [call EXCEPT !.yielded = Append(@, <<call.cur, cur2>>),
                               !.cur = cur2 + 1]
    /\ UNCHANGED <<mainvars, ret>>

\* line 41 with cur past end: the generator is exhausted
DaysReturn ==
    /\ call.fn = "daterange_chunks"
    /\ call.line = 41
    /\ ~(call.cur <= call.end)
    /\ call' = [call EXCEPT !.line = 45]
    /\ UNCHANGED <<mainvars, ret>>

NextDays == DaysYield \/ DaysReturn

SpecDays == InitDays /\ [][NextDays]_vars

\* ------------------------------------------------------------------------
\* src/merge_weather_ipto.py: main
\*
\* call is the frame of main: the two CSV files it reads and the file it
\* writes.  A row is a record of a timestamp in minutes and a cell.
\* ------------------------------------------------------------------------

\* The most rows a file of the two has
MaxMergeRows == 2

\* line 27: tolerance=pd.Timedelta("8min")
Tolerance == 8

\* Timestamps of the weather features (a quarter-hour grid) and of the
\* IPTO rows: 7, 8 and 9 minutes from a weather row, and two at the same
\* distance on either side of one.
WeatherTimes == {At(16, 0, 0), At(16, 0, 15)}
IptoTimes == {At(16, 0, 7), At(16, 0, 8), At(16, 0, 22), At(16, 0, 24)}

WeatherCsvs ==
    UNION { { [i \in 1..n |-> [time |-> t[i], temp |-> Num(i)]] :
                t \in [1..n -> WeatherTimes] } : n \in 1..MaxMergeRows }

IptoCsvs ==
    UNION { { [i \in 1..n |->
                 [timestamp |-> t[i],
                  res_mwh |-> IF known[i] THEN Num((t[i] % MinutesPerHour) + 10 * i)
                              ELSE Null]] :
                t \in [1..n -> IptoTimes], known \in [1..n -> BOOLEAN] } :
            n \in 1..MaxMergeRows }

\* sort_values("timestamp"): the rows in ascending order of the timestamp;
\* the default sort does not promise an order among equal timestamps.
SortedByTimestamp(rows) ==
    { [i \in DOMAIN rows |-> rows[perm[i]]] :
        perm \in { f \in [DOMAIN rows -> DOMAIN rows] :
                     /\ \A i, j \in DOMAIN rows : i # j => f[i] # f[j]
                     /\ \A i, j \in DOMAIN rows :
                           i < j => rows[f[i]].timestamp <= rows[f[j]].timestamp } }

Abs(n) == IF n < 0 THEN -n ELSE n

\* direction="backward": the last row of right at or before the time t and
\* within the tolerance, 0 when there is none
asof_backward(t, right, tolerance) ==
    LET at == {j \in DOMAIN right : right[j].timestamp <= t}
        b == CHOOSE j \in at : \A m \in at : m <= j
    IN IF at # {} /\ t - right[b].timestamp <= tolerance THEN b ELSE 0

\* direction="forward": the first row of right at or after t
asof_forward(t, right, tolerance) ==
    LET at == {j \in DOMAIN right : right[j].timestamp >= t}
        f == CHOOSE j \in at : \A m \in at : j <= m
    IN IF at # {} /\ right[f].timestamp - t <= tolerance THEN f ELSE 0

\* direction="nearest": the backward match and the forward match, the
\* nearer of the two, the backward one when they are equally near
asof_nearest(t, right, tolerance) ==
    LET b == asof_backward(t, right, tolerance)
        f == asof_forward(t, right, tolerance)
    IN IF b # 0 /\ f # 0
       THEN (IF Abs(t - right[b].timestamp) <= Abs(t - right[f].timestamp)
             THEN b ELSE f)
       ELSE IF b # 0 THEN b ELSE f

\* lines 22-28: every row of left, with the columns of the row of right
\* matched to it, NaN when no row matches
merge_asof(left, right) ==
    [i \in DOMAIN left |->
        LET j == asof_nearest(left[i].timestamp, right, Tolerance)
        IN [timestamp |-> left[i].timestamp,
            temp      |-> left[i].temp,
            res_mwh   |-> IF j = 0 THEN Null ELSE right[j].res_mwh]]

\* line 31: dropna(subset=["res_mwh"])
dropna(rows) == SelectSeq(rows, LAMBDA r : r.res_mwh # Null)

InitMerge ==
    /\ Idle("merge_weather_ipto")
    /\ \E w \in WeatherCsvs, i \in IptoCsvs :
         call = [fn      |-> "merge_weather_ipto.main",
                 line    |-> 14,
                 weather |-> w,
                 ipto    |-> i,
                 out     |-> <<>>]
    /\ ret = NoRet

\* lines 14-36: the weather rows with time renamed to timestamp, sorted,
\* matched to the sorted IPTO rows, without the rows that got no res_mwh,
\* written to --out
MergeWeatherIpto ==
    /\ call.fn = "merge_weather_ipto.main"
    /\ call.line = 14
    /\ LET renamed == [i \in DOMAIN call.weather |->
                         [timestamp |-> call.weather[i].time,
                          temp      |-> call.weather[i].temp]]
       IN \E left \in SortedByTimestamp(renamed),
             right \in SortedByTimestamp(call.ipto) :
            call' = [call EXCEPT !.line = 36,
                                 !.out = dropna(merge_asof(left, right))]
    /\ UNCHANGED <<mainvars, ret>>

NextMerge == MergeWeatherIpto

SpecMerge == InitMerge /\ [][NextMerge]_vars

\* ------------------------------------------------------------------------
\* What the properties are stated with
\* ------------------------------------------------------------------------

LoaderRounds == {"IDA1", "IDA2", "IDA3"}

\* The loader call has returned a table.
DamReturned == ret.done /\ call.fn = "load_dam_folder" /\ ret.err = ""
IdaReturned == ret.done /\ call.fn = "load_ida_folder" /\ ret.err = ""

\* name is a file of dir that the loop of a loader hands to pd.read_excel
\* when it comes to it: an .xlsx entry whose name holds a date of the range.
Collected(name, start_date, end_date) ==
    /\ EndsWith(name, DotXlsx)
    /\ parse_fname_date(name) # None
    /\ parse_fname_date(name) >= start_date
    /\ parse_fname_date(name) <= end_date

\* r is a row a loader keeps: its key is a date of the range.
KeptRow(r, start_date, end_date) ==
    /\ r[KEY].k = "dt"
    /\ r[KEY].n \div MinutesPerDay >= start_date
    /\ r[KEY].n \div MinutesPerDay <= end_date

\* The rows of the file of dir under name that a loader keeps, as the set
\* of their positions in the file.
KeptRows(dir, name, start_date, end_date) ==
    IF /\ Collected(name, start_date, end_date)
       /\ dir[name].ok
       /\ KEY \in Range(dir[name].cols)
    THEN {i \in DOMAIN dir[name].rows :
             KeptRow(dir[name].rows[i], start_date, end_date)}
    ELSE {}

\* The kept rows of a folder: <<name, position>>.
AllKeptRows(dir, start_date, end_date) ==
    UNION {{<<name, i>> : i \in KeptRows(dir, name, start_date, end_date)} :
             name \in DOMAIN dir}

\* The numbers column c holds in the kept rows whose key is k: how many
\* there are and their sum.
RECURSIVE Tally(_, _, _, _)
Tally(places, dir, k, c) ==
    IF places = {} THEN [cnt |-> 0, sum |-> 0]
    ELSE
      LET p == CHOOSE q \in places : TRUE
          r == dir[p[1]].rows[p[2]]
          rest == Tally(places \ {p}, dir, k, c)
      IN IF r[KEY].n = k /\ c \in DOMAIN r /\ r[c].k = "num"
         THEN [cnt |-> rest.cnt + 1, sum |-> rest.sum + r[c].n]
         ELSE rest

\* The folder without the entry name.
Without(dir, name) == [n \in DOMAIN dir \ {name} |-> dir[n]]

\* The folder without its entries that are no table.
ParseableOnly(dir) == [n \in {m \in DOMAIN dir : dir[m].ok} |-> dir[n]]

\* What the called loader gives for the folder dir, as [err, df].
LoaderOn(dir) ==
    LET listing == CHOOSE l \in Listings(DOMAIN dir) : TRUE
        r == IF call.fn = "load_dam_folder"
             THEN load_dam_folder(listing, dir, call.start_date, call.end_date)
             ELSE load_ida_folder(listing, dir, call.auction_name,
                                  call.start_date, call.end_date)
    IN [err |-> r.err, df |-> r.df]

\* ------------------------------------------------------------------------
\* C1.  The table main writes has as many rows as the intraday table that
\* load_all_idas returned: the left join with the day-ahead table and the
\* left join with the weather table neither drop nor multiply a row.
\* ------------------------------------------------------------------------
C1_JoinCardinality ==
    /\ pc \in {"merge_weather", "save"} => Len(merged.rows) = Len(ida_all.rows)
    /\ status = "saved" =>
          /\ csv.written
          /\ Len(csv.rows) = Len(ida_all.rows)

\* A file is written from an intraday table that holds an hour twice and an
\* hour the day-ahead and weather tables lack, joined with a day-ahead
\* table built from an hour published twice and with a weather table.
C1_Witness ==
    /\ status = "saved"
    /\ DatedName(16, 98, DotXlsx) \in DOMAIN dirs.DAM
    /\ ~IsEmpty(dam_all)
    /\ \E i, j \in DOMAIN ida_all.rows :
          i # j /\ ida_all.rows[i][KEY] = ida_all.rows[j][KEY]
    /\ \E i \in DOMAIN ida_all.rows :
          /\ \A j \in DOMAIN dam_all.rows :
                dam_all.rows[j][KEY] # ida_all.rows[i][KEY]
          /\ \A j \in DOMAIN weather.rows :
                weather.rows[j][KEY] # ida_all.rows[i][KEY]
    /\ \E i \in DOMAIN ida_all.rows :
          \E j \in DOMAIN dam_all.rows :
             dam_all.rows[j][KEY] = ida_all.rows[i][KEY]

\* ------------------------------------------------------------------------
\* C2.  Every column name of an intraday file that was loaded is, unchanged,
\* a column of the intraday table and of the table main writes, also when a
\* DAM_ column or a weather column has the same name.
\* ------------------------------------------------------------------------
C2_IdaNamesVerbatim ==
    status = "saved" =>
       \A r \in LoaderRounds : \A name \in DOMAIN dirs[r] :
          KeptRows(dirs[r], name, StartDate, EndDate) # {} =>
             \A c \in Range(dirs[r][name].cols) :
                /\ c \in Range(ida_all.cols)
                /\ c \in Range(csv.cols)

\* ------------------------------------------------------------------------
\* C3.  In the table load_dam_folder returns, the keys are those of the
\* kept rows, and each DAM_ field of the row of a key is the mean of the
\* numbers that field holds in exactly the kept rows of that key (NaN when
\* it holds none); the value of a single row is kept.
\* ------------------------------------------------------------------------
C3_DamMean ==
    DamReturned =>
       LET kept == AllKeptRows(call.dir, call.start_date, call.end_date)
           out == ret.df
       IN /\ {out.rows[i][KEY].n : i \in DOMAIN out.rows}
               = {call.dir[p[1]].rows[p[2]][KEY].n : p \in kept}
          /\ \A i \in DOMAIN out.rows : \A name \in DOMAIN call.dir :
                \A c \in Range(call.dir[name].cols) :
                   ("DAM_" \o c) \in Range(out.cols) =>
                      LET v == out.rows[i]["DAM_" \o c]
                          t == Tally(kept, call.dir, out.rows[i][KEY].n, c)
                      IN IF t.cnt = 0 THEN v = Null
                         ELSE /\ v.k = "num"
                              /\ v.d > 0
                              /\ v.n * t.cnt = t.sum * v.d
                              /\ t.cnt = 1 => v = Num(t.sum)

\* 50 and 52 published for hour 0 of 2024-06-16 give 51, next to an hour
\* published once.
C3_Witness ==
    /\ DamReturned
    /\ \E i, j \in DOMAIN ret.df.rows :
          /\ ret.df.rows[i][KEY] = Dt(At(16, 0, 0))
          /\ ret.df.rows[i]["DAM_PRICE"] = Num(51)
          /\ ret.df.rows[j][KEY] = Dt(At(17, 1, 0))
          /\ ret.df.rows[j]["DAM_PRICE"] = Num(48)

\* ------------------------------------------------------------------------
\* C4.  In a table load_dam_folder returns, no two rows have the same
\* DELIVERY_MTU.
\* ------------------------------------------------------------------------
C4_DamKeyUnique ==
    DamReturned =>
       \A i, j \in DOMAIN ret.df.rows :
          ret.df.rows[i][KEY] = ret.df.rows[j][KEY] => i = j

\* The folder holds a key in two kept rows of one file and in a kept row of
\* another file.
C4_Witness ==
    /\ DamReturned
    /\ Len(ret.df.rows) >= 2
    /\ \E p, q \in AllKeptRows(call.dir, call.start_date, call.end_date) :
          /\ p[1] # q[1]
          /\ call.dir[p[1]].rows[p[2]][KEY] = call.dir[q[1]].rows[q[2]][KEY]
    /\ \E p, q \in AllKeptRows(call.dir, call.start_date, call.end_date) :
          /\ p[1] = q[1] /\ p[2] # q[2]
          /\ call.dir[p[1]].rows[p[2]][KEY] = call.dir[q[1]].rows[q[2]][KEY]

\* ------------------------------------------------------------------------
\* C5.  A loader reads each .xlsx file whose name is dated start_date or
\* end_date, and reads no file dated the day before start_date or the day
\* after end_date.
\* ------------------------------------------------------------------------
C5_BoundaryFiles ==
    ret.done =>
       \A name \in DOMAIN call.dir :
          EndsWith(name, DotXlsx) =>
             /\ parse_fname_date(name) \in {call.start_date, call.end_date}
                   => name \in Range(ret.read)
             /\ parse_fname_date(name) \in {call.start_date - 1, call.end_date + 1}
                   => name \notin Range(ret.read)

\* ------------------------------------------------------------------------
\* C6.  The second run of main on the same folders, weather file and
\* arguments ends as the first did and leaves the same file, whatever order
\* os.listdir returns the names in; the rows of the intraday table are
\* those of IDA1, then IDA2, then IDA3, and the day-ahead join comes before
\* the weather join.
\* ------------------------------------------------------------------------
RoundIndex(cell) == CHOOSE i \in DOMAIN Rounds : Text(Rounds[i]) = cell

C6_Deterministic ==
    /\ (run = 2 /\ pc = "done") => (status = first.status /\ csv = first.csv)
    /\ \A i, j \in DOMAIN ida_all.rows :
          i < j => RoundIndex(ida_all.rows[i]["AUCTION"])
                      <= RoundIndex(ida_all.rows[j]["AUCTION"])
    /\ status = "saved" =>
          \/ stdout = <<"After merging with DAM", "After merging with weather",
                        "Saved final IDM dataset">>
          \/ stdout = <<"No DAM data, continuing with IDA only.",
                        "After merging with weather", "Saved final IDM dataset">>

\* Both runs wrote the file, from folders that hold two files each and from
\* all three rounds.
C6_Witness ==
    /\ run = 2 /\ pc = "done" /\ status = "saved"
    /\ {DatedName(16, 97, DotXlsx), DatedName(16, 98, DotXlsx)}
          = DOMAIN dirs.IDA1
    /\ {DatedName(16, 97, DotXlsx), DatedName(16, 98, DotXlsx)}
          = DOMAIN dirs.DAM
    /\ \A r \in LoaderRounds :
          \E i \in DOMAIN ida_all.rows : ida_all.rows[i]["AUCTION"] = Text(r)

\* ------------------------------------------------------------------------
\* C7.  When load_all_idas returns no row, main prints its diagnostic and
\* returns: it loads no weather table, joins nothing and writes no file,
\* whatever the day-ahead table holds.
\* ------------------------------------------------------------------------
C7_AbortOnNoIda ==
    /\ pc \in {"merge_dam", "merge_weather", "save"} => ~IsEmpty(ida_all)
    /\ (pc = "done" /\ status # "raised" /\ IsEmpty(ida_all)) =>
          /\ status = "returned"
          /\ stdout = <<"No IDA data loaded, cannot build dataset.">>
          /\ weather = EmptyFrame
          /\ merged = EmptyFrame
          /\ ~csv.written

\* main returned on an empty intraday table with a day-ahead table of
\* several rows.
C7_Witness ==
    /\ pc = "done" /\ status = "returned"
    /\ IsEmpty(ida_all)
    /\ Len(dam_all.rows) >= 2
    /\ DOMAIN dirs.IDA1 # {}

\* ------------------------------------------------------------------------
\* C8.  A collected file that is no table is left out: the loader does not
\* raise and returns what it returns for the other files.
\* ------------------------------------------------------------------------
C8_UnparseableSkipped ==
    (ret.done /\ \E name \in DOMAIN call.dir :
                    /\ Collected(name, call.start_date, call.end_date)
                    /\ ~call.dir[name].ok) =>
       /\ ret.err # "read_excel"
       /\ [err |-> ret.err, df |-> ret.df] = LoaderOn(ParseableOnly(call.dir))

\* ------------------------------------------------------------------------
\* C9.  A collected file without a DELIVERY_MTU column gives the output
\* nothing: a loader returns (or raises) what it does for the folder
\* without that file.
\* ------------------------------------------------------------------------
C9_NoKeyFileSkipped ==
    ret.done =>
       \A name \in DOMAIN call.dir :
          (/\ Collected(name, call.start_date, call.end_date)
           /\ call.dir[name].ok
           /\ KEY \notin Range(call.dir[name].cols)) =>
             [err |-> ret.err, df |-> ret.df] = LoaderOn(Without(call.dir, name))

\* A loader read a file without the key column and then a file whose rows
\* it returned.
C9_Witness ==
    /\ ret.done /\ ret.err = ""
    /\ Len(ret.df.rows) > 0
    /\ \E i, j \in DOMAIN ret.read :
          /\ i < j
          /\ KEY \notin Range(call.dir[ret.read[i]].cols)
          /\ KeptRows(call.dir, ret.read[j], call.start_date, call.end_date) # {}

\* ------------------------------------------------------------------------
\* C10.  One day-ahead file and one IDA1 file dated 2024-06-16 with the
\* same 24 hours, and no weather file: main writes 24 rows, AUCTION is IDA1
\* in each, the day-ahead columns carry DAM_, the intraday columns keep
\* their names.
\* ------------------------------------------------------------------------
C10_EndToEnd ==
    (/\ pc = "done"
     /\ dirs = [DAM  |-> [n \in {DatedName(16, 97, DotXlsx)} |-> Day24],
                IDA1 |-> [n \in {DatedName(16, 97, DotXlsx)} |-> Ida24],
                IDA2 |-> NoFolder, IDA3 |-> NoFolder]
     /\ weather_csv = NoWeather) =>
       /\ status = "saved"
       /\ Len(csv.rows) = 24
       /\ \A i \in DOMAIN csv.rows : csv.rows[i]["AUCTION"] = Text("IDA1")
       /\ Range(Ida24.cols) \subseteq Range(csv.cols)
       /\ "DAM_PRICE" \in Range(csv.cols)
       /\ \A c \in Range(Day24.cols) \ Range(Ida24.cols) : c \notin Range(csv.cols)

\* ------------------------------------------------------------------------
\* C11.  resample_to_frequency of an hourly table with a frequency that
\* denotes one hour returns its input: the same index, columns and values.
\* ------------------------------------------------------------------------
C11_NativeFrequencyIdentity ==
    (/\ ret.done
     /\ call.fn = "resample_to_frequency"
     /\ to_offset(call.freq) = MinutesPerHour) =>
       /\ ret.err = ""
       /\ ret.df = call.df

\* The column c of the table df holds no value.
EmptyColumn(df, c) == \A i \in DOMAIN df.rows : df.rows[i][c] = Null

\* ------------------------------------------------------------------------
\* C12.  Whatever the frequency, a column that holds no value in the table
\* given to resample_to_frequency holds no value in the table it returns.
\* ------------------------------------------------------------------------
C12_EmptyColumnStaysEmpty ==
    (ret.done /\ call.fn = "resample_to_frequency" /\ ret.err = "") =>
       \A c \in Range(call.df.cols) :
          EmptyColumn(call.df, c) =>
             /\ c \in Range(ret.df.cols)
             /\ EmptyColumn(ret.df, c)

\* An hourly table was resampled to 15 minutes: the temperature between 10
\* and 20 was interpolated, and the float column and the object column
\* that held no value are in the result.
C12_Witness ==
    /\ ret.done /\ call.fn = "resample_to_frequency" /\ ret.err = ""
    /\ call.freq = "15T"
    /\ Len(ret.df.rows) = 4 * (Hours - 1) + 1
    /\ \E i \in DOMAIN ret.df.rows :
          ret.df.rows[i]["athens__temperature_2m"] = Ratio(25, 2)
    /\ EmptyColumn(call.df, "athens__precipitation")
    /\ "athens__precipitation" \in call.df.num
    /\ EmptyColumn(call.df, "athens__wind_speed_10m")
    /\ "athens__wind_speed_10m" \notin call.df.num

\* ------------------------------------------------------------------------
\* C13.  When no day-ahead file qualifies, load_dam_folder returns a table
\* without rows whose only column is DELIVERY_MTU, and main skips the
\* day-ahead join: the table it hands to the weather join is the intraday
\* table, rows, order, columns and values.
\* ------------------------------------------------------------------------
NoDamFileQualifies ==
    \A name \in DOMAIN dirs.DAM : ~Collected(name, StartDate, EndDate)

C13_NoDamPassThrough ==
    NoDamFileQualifies =>
       /\ pc # "load_dam" =>
             /\ dam_all.cols = <<"DELIVERY_MTU">>
             /\ dam_all.rows = <<>>
       /\ pc = "merge_weather" =>
             /\ merged = ida_all
             /\ stdout = <<"No DAM data, continuing with IDA only.">>
       /\ (status = "raised" /\ stdout = <<>>) => weather = EmptyFrame

\* main is about to join the weather table; the day-ahead folder holds a
\* file dated before the range, the intraday table several rows.
C13_Witness ==
    /\ pc = "merge_weather"
    /\ NoDamFileQualifies
    /\ DOMAIN dirs.DAM # {}
    /\ Len(ida_all.rows) >= 2
    /\ merged = ida_all

\* ------------------------------------------------------------------------
\* C14.  In the table load_all_idas returns, no two rows have the same
\* DELIVERY_MTU and the same AUCTION, and AUCTION is IDA1, IDA2 or IDA3.
\* ------------------------------------------------------------------------
C14_OneRowPerKeyAndRound ==
    /\ \A i, j \in DOMAIN ida_all.rows :
          (/\ ida_all.rows[i][KEY] = ida_all.rows[j][KEY]
           /\ ida_all.rows[i]["AUCTION"] = ida_all.rows[j]["AUCTION"]) => i = j
    /\ \A i \in DOMAIN ida_all.rows :
          ida_all.rows[i]["AUCTION"] \in {Text(r) : r \in LoaderRounds}

\* main holds the table load_all_idas returned.
IdasLoaded ==
    \/ pc \in {"check_idas", "merge_dam", "merge_weather", "save"}
    \/ pc = "done" /\ status \in {"returned", "saved"}

\* The rows of the intraday table whose AUCTION is the round r
RowsOfRound(r) ==
    {i \in DOMAIN ida_all.rows : ida_all.rows[i]["AUCTION"] = Text(r)}

\* The kept rows of the folder of the round r
KeptOfRound(r) == AllKeptRows(dirs[r], StartDate, EndDate)

\* ------------------------------------------------------------------------
\* C15.  load_all_idas returns the rows of the three rounds side by side:
\* as many rows as IDA1, IDA2 and IDA3 give together, the rows of two
\* rounds with the same DELIVERY_MTU both kept, and in each row the AUCTION
\* of the folder the row was read from, also when the file has an AUCTION
\* column of its own.
\* ------------------------------------------------------------------------
C15_RowWiseUnion ==
    IdasLoaded =>
       /\ Len(ida_all.rows) = Cardinality(KeptOfRound("IDA1"))
                                 + Cardinality(KeptOfRound("IDA2"))
                                 + Cardinality(KeptOfRound("IDA3"))
       /\ \A r \in LoaderRounds :
             /\ Cardinality(RowsOfRound(r)) = Cardinality(KeptOfRound(r))
             /\ \A i \in RowsOfRound(r) :
                   \E p \in KeptOfRound(r) :
                      \A c \in Range(dirs[r][p[1]].cols) \ {"AUCTION"} :
                         ida_all.rows[i][c] = dirs[r][p[1]].rows[p[2]][c]

\* Two rounds gave a row for the same DELIVERY_MTU, and a file with an
\* AUCTION column of its own gave rows to IDA1.
C15_Witness ==
    /\ IdasLoaded
    /\ \E i, j \in DOMAIN ida_all.rows :
          /\ ida_all.rows[i][KEY] = ida_all.rows[j][KEY]
          /\ ida_all.rows[i]["AUCTION"] = Text("IDA1")
          /\ ida_all.rows[j]["AUCTION"] = Text("IDA2")
    /\ \E p \in KeptOfRound("IDA1") :
          /\ "AUCTION" \in Range(dirs.IDA1[p[1]].cols)
          /\ dirs.IDA1[p[1]].rows[p[2]]["AUCTION"] # Text("IDA1")

\* ------------------------------------------------------------------------
\* C16.  A round whose folder gives no row (no file, no file named in the
\* range, no row dated in the range) raises nothing and gives the intraday
\* table no row, the rows of the other rounds are all there, and the
\* intraday table is empty only when the three rounds are.
\* ------------------------------------------------------------------------
C16_EmptyRound ==
    /\ \A r \in LoaderRounds :
          KeptOfRound(r) = {} =>
             \A listing \in Listings(DOMAIN dirs[r]) :
                LET res == load_ida_folder(listing, dirs[r], r, StartDate, EndDate)
                IN res.err = "" /\ res.df.rows = <<>>
    /\ IdasLoaded =>
          /\ \A r \in LoaderRounds :
                Cardinality(RowsOfRound(r)) = Cardinality(KeptOfRound(r))
          /\ IsEmpty(ida_all) <=> \A r \in LoaderRounds : KeptOfRound(r) = {}

\* IDA2 holds a file named in the range without a row dated in it; the
\* intraday table holds the rows of IDA1 and IDA3 and none of IDA2.
C16_Witness ==
    /\ IdasLoaded
    /\ DOMAIN dirs.IDA2 # {}
    /\ KeptOfRound("IDA2") = {}
    /\ \E name \in DOMAIN dirs.IDA2 : Collected(name, StartDate, EndDate)
    /\ RowsOfRound("IDA1") # {}
    /\ RowsOfRound("IDA3") # {}
    /\ RowsOfRound("IDA2") = {}

\* The files of a folder that give a loader rows
KeptFiles(dir, start_date, end_date) ==
    {p[1] : p \in AllKeptRows(dir, start_date, end_date)}

\* The columns other than the key that hold numbers in every file of
\* names that has them
NumericSourceColumns(dir, names) ==
    {c \in UNION {Range(dir[n].cols) : n \in names} \ {KEY} :
        \A n \in names :
           c \in Range(dir[n].cols) =>
              \A i \in DOMAIN dir[n].rows :
                 dir[n].rows[i][c].k \in {"num", "nan"}}

\* ------------------------------------------------------------------------
\* C17.  When load_dam_folder loads at least one row, the columns of its
\* result are DELIVERY_MTU and DAM_<name> for every numeric column <name>
\* of the files, and nothing else, also when the files have no numeric
\* column.
\* ------------------------------------------------------------------------
C17_DamColumns ==
    (/\ ret.done
     /\ call.fn = "load_dam_folder"
     /\ AllKeptRows(call.dir, call.start_date, call.end_date) # {}
     /\ \A name \in DOMAIN call.dir :
           Collected(name, call.start_date, call.end_date) => call.dir[name].ok) =>
       /\ ret.err = ""
       /\ Range(ret.df.cols) =
             {KEY} \cup
             {"DAM_" \o c :
                c \in NumericSourceColumns(call.dir,
                         KeptFiles(call.dir, call.start_date, call.end_date))}

\* ------------------------------------------------------------------------
\* C18.  The files a loader reads are exactly the .xlsx entries of the
\* folder whose first 8 characters are a date of [start_date, end_date]; an
\* entry whose name holds no date is passed over.
\* ------------------------------------------------------------------------
C18_ReadSet ==
    ret.done =>
       Range(ret.read) =
          {name \in DOMAIN call.dir :
              Collected(name, call.start_date, call.end_date)}

\* ------------------------------------------------------------------------
\* C19.  build_feature_block keeps what it was given: the index, the row
\* count, every input column in its place with its values; what it adds
\* comes after the input columns.
\* ------------------------------------------------------------------------
C19_InputPreserved ==
    (ret.done /\ call.fn = "build_feature_block") =>
       /\ ret.err = ""
       /\ ret.df.index = call.df.index
       /\ Len(ret.df.rows) = Len(call.df.rows)
       /\ Len(ret.df.cols) >= Len(call.df.cols)
       /\ SubSeq(ret.df.cols, 1, Len(call.df.cols)) = call.df.cols
       /\ \A i \in DOMAIN call.df.rows : \A c \in Range(call.df.cols) :
             ret.df.rows[i][c] = call.df.rows[i][c]

\* ------------------------------------------------------------------------
\* C20.  Every row a loader returns (for load_dam_folder: every key it
\* aggregated) has a DELIVERY_MTU that is a timestamp dated in
\* [start_date, end_date] and comes from a row of a file named in the
\* range; no row with an unreadable or out-of-range timestamp gets through.
\* ------------------------------------------------------------------------
C20_RowsInRange ==
    (ret.done /\ ret.err = "" /\ call.fn \in {"load_dam_folder", "load_ida_folder"}) =>
       \A i \in DOMAIN ret.df.rows :
          LET r == ret.df.rows[i]
          IN /\ r[KEY].k = "dt"
             /\ DateOf(r[KEY].n) >= call.start_date
             /\ DateOf(r[KEY].n) <= call.end_date
             /\ \E name \in DOMAIN call.dir :
                   /\ parse_fname_date(name) # None
                   /\ parse_fname_date(name) >= call.start_date
                   /\ parse_fname_date(name) <= call.end_date
                   /\ KEY \in Range(call.dir[name].cols)
                   /\ \E j \in DOMAIN call.dir[name].rows :
                         /\ call.dir[name].rows[j][KEY] = r[KEY]
                         /\ call.fn = "load_ida_folder" =>
                               \A c \in Range(call.dir[name].cols) \ {"AUCTION"} :
                                  c \in DOMAIN r /\ r[c] = call.dir[name].rows[j][c]

\* A loader returned rows of a file that also holds a row whose key is no
\* timestamp and rows dated outside the range, from a folder that also
\* holds a file named outside the range with rows dated in it.
C20_Witness ==
    /\ ret.done /\ ret.err = "" /\ Len(ret.df.rows) >= 2
    /\ call.fn \in {"load_dam_folder", "load_ida_folder"}
    /\ \E name \in Range(ret.read) :
          /\ KEY \in Range(call.dir[name].cols)
          /\ \E j \in DOMAIN call.dir[name].rows :
                call.dir[name].rows[j][KEY].k = "str"
          /\ \E j \in DOMAIN call.dir[name].rows :
                /\ call.dir[name].rows[j][KEY].k = "dt"
                /\ DateOf(call.dir[name].rows[j][KEY].n) > call.end_date
          /\ \E j \in DOMAIN call.dir[name].rows :
                /\ call.dir[name].rows[j][KEY].k = "dt"
                /\ DateOf(call.dir[name].rows[j][KEY].n) < call.start_date
    /\ \E name \in DOMAIN call.dir :
          /\ EndsWith(name, DotXlsx)
          /\ parse_fname_date(name) > call.end_date
          /\ KEY \in Range(call.dir[name].cols)
          /\ \E j \in DOMAIN call.dir[name].rows :
                KeptRow(call.dir[name].rows[j], call.start_date, call.end_date)

\* The columns lines 104-107 roll, when the table has them
RolledBases(df) ==
    {"AGG__mean__wind_speed_10m", "AGG__mean__shortwave_radiation"}
        \cap Range(df.cols)

\* Rows 1..i of the column c hold a number each.
HasValues(df, c, i) == \A j \in 1..i : IsNum(df.rows[j][c])

\* ------------------------------------------------------------------------
\* C21.  In the table build_feature_block returns, for every window w and
\* every row before the window is full (the first row included) whose base
\* column holds values so far, the rolling mean and the rolling standard
\* deviation are both there and are the statistic of the rows from the
\* first to that one: no leading row of a rolling column is null.
\* ------------------------------------------------------------------------
C21_LeadingRowsFilled ==
    (ret.done /\ call.fn = "build_feature_block" /\ ret.err = "") =>
       \A base \in RolledBases(ret.df) :
          \A k \in DOMAIN DefaultWindows :
             LET w == DefaultWindows[k]
                 cells == Column(ret.df, base)
             IN \A i \in DOMAIN ret.df.rows :
                   (i < w /\ HasValues(ret.df, base, i)) =>
                      LET mn == ret.df.rows[i][base \o "__rollmean" \o WindowText(w)]
                          sd == ret.df.rows[i][base \o "__rollstd" \o WindowText(w)]
                      IN /\ mn # Null /\ mn = RMean(SubSeq(cells, 1, i))
                         /\ sd # Null /\ sd = RStd(SubSeq(cells, 1, i))

\* The rows of df whose column c holds a number
Known(df, c) == {i \in DOMAIN df.index : IsNum(df.rows[i][c])}

\* ------------------------------------------------------------------------
\* C22.  When resample_to_frequency brings an hourly table to a grid finer
\* than the hour, every timestamp of the table is on the grid of the
\* result, with the numbers the table holds there, and the number at a
\* grid point between two known points that follow each other is the one
\* on the line through them at that time, however many hours lie between
\* the two.
\* ------------------------------------------------------------------------
C22_TimeInterpolation ==
    (/\ ret.done /\ call.fn = "resample_to_frequency" /\ ret.err = ""
     /\ to_offset(call.freq) > 0
     /\ to_offset(call.freq) < MinutesPerHour) =>
       \A c \in call.df.num :
          /\ \A i \in DOMAIN call.df.index :
                \E j \in DOMAIN ret.df.index :
                   /\ ret.df.index[j] = call.df.index[i]
                   /\ i \in Known(call.df, c) =>
                         ret.df.rows[j][c] = call.df.rows[i][c]
          /\ \A p, q \in Known(call.df, c) :
                (/\ call.df.index[p] < call.df.index[q]
                 /\ \A m \in Known(call.df, c) :
                       ~(/\ call.df.index[p] < call.df.index[m]
                         /\ call.df.index[m] < call.df.index[q])) =>
                   \A j \in DOMAIN ret.df.index :
                      (/\ call.df.index[p] < ret.df.index[j]
                       /\ ret.df.index[j] < call.df.index[q]) =>
                         ret.df.rows[j][c] =
                            Linear(call.df.index[p], call.df.rows[p][c],
                                   call.df.index[q], call.df.rows[q][c],
                                   ret.df.index[j])

\* The timestamps the first column of the file of the call holds
FileTimes ==
    {call.file.rows[i][call.file.cols[1]].n :
        i \in {j \in DOMAIN call.file.rows :
                  call.file.rows[j][call.file.cols[1]].k = "dt"}}

\* ------------------------------------------------------------------------
\* C23.  Whatever the first column of the weather file is called and in
\* whatever order its rows are, the table load_weather returns has the
\* key column DELIVERY_MTU, its keys are full hours made of that column
\* (the hour of each of its timestamps is a key and no key lies outside
\* their span), they ascend strictly and no hour has two rows.
\* ------------------------------------------------------------------------
C23_HourlyKey ==
    (ret.done /\ call.fn = "load_weather" /\ ret.err = "") =>
       /\ ret.df.cols[1] = KEY
       /\ \A i \in DOMAIN ret.df.cols : ret.df.cols[i] = KEY => i = 1
       /\ \A i \in DOMAIN ret.df.rows :
             /\ ret.df.rows[i][KEY].k = "dt"
             /\ HourFloor(ret.df.rows[i][KEY].n) = ret.df.rows[i][KEY].n
             /\ \E t \in FileTimes : HourFloor(t) <= ret.df.rows[i][KEY].n
             /\ \E t \in FileTimes : ret.df.rows[i][KEY].n <= t
       /\ \A t \in FileTimes :
             \E i \in DOMAIN ret.df.rows : ret.df.rows[i][KEY] = Dt(HourFloor(t))
       /\ \A i, j \in DOMAIN ret.df.rows :
             i < j => ret.df.rows[i][KEY].n < ret.df.rows[j][KEY].n

\* load_weather returned three hourly rows for a file whose first column
\* is not called time, whose rows are in descending order, with two
\* timestamps of the same hour.
C23_Witness ==
    /\ ret.done /\ call.fn = "load_weather" /\ ret.err = ""
    /\ call.file.cols[1] = "Unnamed: 0"
    /\ [i \in DOMAIN call.file.rows |-> call.file.rows[i]["Unnamed: 0"]]
          = <<Dt(At(16, 2, 15)), Dt(At(16, 0, 45)), Dt(At(16, 0, 0))>>
    /\ [i \in DOMAIN ret.df.rows |-> ret.df.rows[i][KEY]]
          = <<Dt(At(16, 0, 0)), Dt(At(16, 1, 0)), Dt(At(16, 2, 0))>>

\* The epoch with the lowest test loss, the earliest of them on a tie
BestEpoch(epochs) ==
    CHOOSE e \in DOMAIN epochs :
       \A f \in DOMAIN epochs :
          \/ epochs[e].val_loss < epochs[f].val_loss
          \/ epochs[e].val_loss = epochs[f].val_loss /\ e <= f

\* ------------------------------------------------------------------------
\* C24.  When train_lstm_ida1.main is through, the parameters it evaluated
\* last and wrote to models/lstm_ida1.pt are the ones the model had at the
\* end of the epoch with the lowest test loss (the earliest on a tie),
\* whatever the epochs after it made of the parameters.
\* ------------------------------------------------------------------------
C24_BestEpochRestored ==
    (call.fn = "train_lstm_ida1.main" /\ call.line = 212) =>
       LET best == call.epochs[BestEpoch(call.epochs)]
       IN /\ call.model = best.model
          /\ call.checkpoint.state_dict = best.model
          /\ call.final_loss = Loss(best.val_loss)

\* What chunk_period has yielded so far: intervals that are not empty and
\* not longer than hours_per_call, each starting where the one before it
\* ended, the first at start_utc, none reaching past end_utc; once the
\* generator is exhausted the last one ends at end_utc, and nothing was
\* yielded when start_utc is not before end_utc.
ChunkIntervals ==
    call.fn = "chunk_period" =>
       LET y == call.yielded
       IN /\ \A i \in DOMAIN y :
                /\ y[i][1] < y[i][2]
                /\ y[i][2] - y[i][1] <= call.hours_per_call * MinutesPerHour
                /\ y[i][2] <= call.end_utc
                /\ i = 1 => y[i][1] = call.start_utc
                /\ i > 1 => y[i][1] = y[i - 1][2]
          /\ call.start_utc >= call.end_utc => y = <<>>
          /\ (call.line = 30 /\ call.start_utc < call.end_utc) =>
                /\ y # <<>>
                /\ y[Len(y)][2] = call.end_utc

ChunkExhausted == call.fn = "chunk_period" => call.line = 30

\* ------------------------------------------------------------------------
\* C25.  For start < end and a positive hours_per_call chunk_period comes
\* to an end, and the intervals it yields are not empty, each begins where
\* the one before ended, none is longer than hours_per_call, the first
\* begins at start and the last ends at end; for start >= end it yields
\* nothing.
\* ------------------------------------------------------------------------
C25_ChunkPeriod == []ChunkIntervals /\ <>ChunkExhausted

\* chunk_period is exhausted after three intervals, the last one shorter
\* than hours_per_call.
C25_Witness ==
    /\ call.fn = "chunk_period" /\ call.line = 30
    /\ Len(call.yielded) = 3
    /\ call.yielded[3][2] - call.yielded[3][1]
          < call.hours_per_call * MinutesPerHour

\* ------------------------------------------------------------------------
\* C26.  For every integer chunk_days and every start <= end,
\* daterange_chunks comes to an end and yields inclusive ranges of days
\* that cover each date from start to end once, in ascending order, none
\* of more than chunk_days days: each range begins the day after the one
\* before it ended, the first at start, no more ranges are yielded than
\* there are dates, and the last one ends at end.
\* ------------------------------------------------------------------------
C26_DayRanges ==
    call.fn = "daterange_chunks" =>
       LET y == call.yielded
       IN /\ Len(y) <= call.end - call.start + 1
          /\ \A i \in DOMAIN y :
                /\ y[i][1] <= y[i][2]
                /\ y[i][2] - y[i][1] + 1 <= call.chunk_days
                /\ y[i][2] <= call.end
                /\ i = 1 => y[i][1] = call.start
                /\ i > 1 => y[i][1] = y[i - 1][2] + 1
          /\ call.line = 45 =>
                /\ y # <<>>
                /\ y[Len(y)][2] = call.end

\* ------------------------------------------------------------------------
\* C27.  Every row merge_weather_ipto.main writes is a weather row (no
\* weather row is written more often than the file holds it) with a
\* res_mwh that is not null and is the res_mwh of an IPTO row that is no
\* further from the weather timestamp than any other IPTO row and no
\* further than 8 minutes; a weather row without an IPTO row within 8
\* minutes is not written.
\* ------------------------------------------------------------------------
C27_NearestWithinTolerance ==
    (call.fn = "merge_weather_ipto.main" /\ call.line = 36) =>
       /\ \A k \in DOMAIN call.out :
             LET r == call.out[k]
             IN /\ r.res_mwh # Null
                /\ \E p \in DOMAIN call.ipto :
                      /\ call.ipto[p].res_mwh = r.res_mwh
                      /\ Abs(call.ipto[p].timestamp - r.timestamp) <= 8
                      /\ \A q \in DOMAIN call.ipto :
                            Abs(call.ipto[p].timestamp - r.timestamp)
                               <= Abs(call.ipto[q].timestamp - r.timestamp)
                /\ Cardinality({m \in DOMAIN call.out :
                                  /\ call.out[m].timestamp = r.timestamp
                                  /\ call.out[m].temp = r.temp})
                      <= Cardinality({m \in DOMAIN call.weather :
                                  /\ call.weather[m].time = r.timestamp
                                  /\ call.weather[m].temp = r.temp})
                /\ \E m \in DOMAIN call.weather :
                      /\ call.weather[m].time = r.timestamp
                      /\ call.weather[m].temp = r.temp
       /\ \A m \in DOMAIN call.weather :
             (\A q \in DOMAIN call.ipto :
                 Abs(call.ipto[q].timestamp - call.weather[m].time) > 8) =>
                \A k \in DOMAIN call.out :
                   call.out[k].timestamp # call.weather[m].time
       /\ \A k, m \in DOMAIN call.out :
             k < m => call.out[k].timestamp <= call.out[m].timestamp

\* main wrote the row of 00:15 with the res_mwh of the IPTO row of 00:22,
\* 7 minutes away and nearer than the one of 00:24, and left out the row
\* of 00:00, which has no IPTO row within 8 minutes.
C27_Witness ==
    /\ call.fn = "merge_weather_ipto.main" /\ call.line = 36
    /\ Len(call.weather) = 2 /\ Len(call.ipto) = 2
    /\ call.weather[1].time = At(16, 0, 15)
    /\ call.weather[2].time = At(16, 0, 0)
    /\ call.ipto[1].timestamp = At(16, 0, 22) /\ call.ipto[1].res_mwh # Null
    /\ call.ipto[2].timestamp = At(16, 0, 24) /\ call.ipto[2].res_mwh # Null
    /\ call.out = <<[timestamp |-> At(16, 0, 15), temp |-> Num(1),
                     res_mwh |-> call.ipto[1].res_mwh]>>

TypeOK == pc \in {"load_dam", "load_idas", "check_idas", "merge_dam",
                  "merge_weather", "save", "done", "loader", "weather",
                  "load_weather", "train", "chunk_period",
                  "daterange_chunks", "merge_weather_ipto"}
====
